---------------------------- MODULE Spec2Model ----------------------------
(***************************************************************************)
(* A model of the VulkanCubes renderer: the asynchronous shader handle     *)
(* (shader.h / shader.cpp), the renderer's resource lifecycle, its         *)
(* pipeline-creation task, the per-frame build task with its frame-pending *)
(* protocol (renderer.h / renderer.cpp) and the control-layer mutators     *)
(* (vulkanwindow.cpp).                                                     *)
(*                                                                         *)
(* Threads: the GUI thread (lifecycle hooks, start-next-frame, the         *)
(* finished handler, the mutators) runs each handler to completion; a      *)
(* handler that blocks (QFuture::result, waitForFinished) is an action     *)
(* that is enabled only once the awaited task has finished.  Thread-pool   *)
(* tasks (shader loads, createPipelines, buildFrame) advance in steps      *)
(* between their blocking points.  Q_ASSERT and qFatal end the process     *)
(* (aborted = TRUE); Q_ASSERT is modelled as in a build with assertions.   *)
(***************************************************************************)
EXTENDS Integers, FiniteSets, Sequences, TLC

\* ------------------------------------------------------------------ bounds
MaxMods == 3        \* shader-module handle values the device hands out per shader
MaxLoads == 3       \* load() calls issued on a handle by the shader-handle driver
MaxTasks == 2       \* thread-pool slots available to frame-build tasks
MaxFrames == 2      \* start-next-frame calls issued by the surface owner
MaxAdds == 1        \* add-instances calls issued while frames are rendered
MaxAddCalls == 1020 \* add-instances calls issued by the instance-count driver
MaxCamOps == 1      \* camera commands issued while frames are rendered
MaxFaults == 1      \* loads and device calls the environment lets fail
MaxGrow == 2        \* add-instances calls issued by the instance-store driver
SizeBits == 12      \* width given to VkDeviceSize (64 in the program)
MaxCamSeq == 4      \* camera commands issued by the camera driver
SizeEdge == 40      \* sizes taken from each end of the range of VkDeviceSize
MaxSlotFrames == 3  \* start-next-frame calls issued by the frame-slot driver

\* ----------------------------------------------------- program constants
MAX_INSTANCES == 16384
InstanceStep == 16
InitialCount == 128
ConcurrentFrameCount == 2
VK_NULL_HANDLE == 0

\* The four shader handles: mItemMaterial.vs/.fs and mFloorMaterial.vs/.fs.
Handles == {"itemVs", "itemFs", "floorVs", "floorFs"}

Modules == 1..MaxMods

VARIABLES
    \* --- Shader (one record per handle)
    sh,           \* [mMaybeRunning, mData, fut, res]: fut/res are mFuture's state and result
    shInFlight,   \* number of load task bodies dispatched and not yet returned
    liveMods,     \* shader modules created by vkCreateShaderModule and not destroyed
    shRets,       \* values data() has returned since the last load()/reset()
    shRuns,       \* executions of the load task body since the last load()
    loads,        \* load() calls issued by the shader-handle driver
    \* --- Renderer: device objects and the pipeline-creation task
    win,          \* the surface owner's position in the lifecycle: "none", "device", "swapchain"
    aborted,      \* the process has ended in qFatal, Q_ASSERT or a crash
    faults,       \* failing loads and device calls the environment may still produce
    handles,      \* the Vk* handle members that are not VK_NULL_HANDLE
    objCount,     \* per member, the device objects created through it and not destroyed
    descSet,      \* mItemMaterial.descriptorSet: "uninit", "valid", "stale"
    pipePc,       \* mPipelinesFuture: 0 for none, a position in PipeProgram, PipeDone
    badPipes,     \* pipelines created with a null shader module in a stage
    earlyUse,     \* pipeline-task products a frame build used before that task was done
    \* --- Renderer: the frame-pending protocol
    mFramePending,
    task,         \* per thread-pool slot, the position of the buildFrame task in it
    watched,      \* the slot of the future mFrameWatcher watches, 0 for none
    finishedQueued, \* a Finished call-out event is posted to mFrameWatcher
    mGuiMutex,    \* 0 when free, else the slot of the build task that holds it
    notifs,       \* frameReady() calls made since the last start-next-frame
    frames,       \* start-next-frame calls issued
    \* --- Renderer: state shared by the GUI thread and the frame build
    mAnimating, mUseLogo, mInstCount, mPreparedInstCount, mRotation, mVpDirty, mCam,
    mInstData,    \* the backing store of instance records, as runs of generated records
    rng,          \* records drawn from QRandomGenerator::global() so far
    uploads,      \* uploads of the backing store to the instance buffer's memory
    alignCall,    \* the last call of aligned(): its arguments and its result
    adds,         \* add-instances calls issued
    camOps,       \* camera commands issued
    camArg,       \* the argument of the last camera command
    \* --- Renderer: the uniform data in the shared buffer memory
    uniformAlignment, \* the device's minUniformBufferOffsetAlignment
    mItemMaterial,    \* [vertUniSize, fragUniSize, uniMemStartOffset]
    uniBufSize,   \* the size mUniBuf was created with
    currentFrame, \* the surface owner's current-frame index
    frameUniOffset, \* the dynamic offset the last frame build bound
    uniWrites,    \* the byte ranges of mBufMem the last frame build wrote
    slotVp,       \* per frame slot, its view-projection: "none", "stale", "fresh"
    vertData,     \* the vertex data in mBufMem: "none", "uploaded", "clobbered"
    destroyed,    \* what the last releaseResources destroyed, in order
    \* --- Renderer: what the last ensureBuffers did
    memAlignment, \* the alignment the device requires of a vertex buffer's memory
    memPlan,      \* the memory requirements, the start offsets and the allocation size
    bufSteps,     \* its device calls and copies, in the order they were made
    \* --- Renderer: the instance buffer
    instDataSize, \* mInstData.size()
    instBufSize,  \* the size mInstBuf was created with
    upload,       \* the last upload: the bytes mapped and the bytes copied
    \* --- Renderer: the item draw
    slotModel,    \* per frame slot, the model matrix its uniform data holds
    devInstData,  \* the instance records in mInstBufMem, as runs like mInstData
    buildUploaded, \* the ensureInstanceBuffer of the last frame build uploaded
    drawCount,    \* the instance count of the last item draw
    op            \* the GUI-thread operation that ran last, or how the process ended

shVars == <<sh, shInFlight, liveMods, shRets, shRuns, loads>>
lifeVars == <<win, aborted, handles, objCount, descSet, pipePc, badPipes, earlyUse>>
frameVars == <<mFramePending, task, watched, finishedQueued, mGuiMutex, notifs, frames>>
instVars == <<mInstData, rng, uploads>>
stateVars == <<mAnimating, mUseLogo, mInstCount, mPreparedInstCount, mRotation, mVpDirty,
               mCam, adds, camOps, camArg, instVars>>
rendererVars == <<lifeVars, frameVars, stateVars>>
uniVars == <<uniformAlignment, mItemMaterial, uniBufSize, currentFrame, frameUniOffset,
             uniWrites, slotVp, vertData>>
bufVars == <<memAlignment, memPlan, bufSteps, instDataSize, instBufSize, upload,
             slotModel, devInstData, buildUploaded, drawCount>>
vars == <<shVars, lifeVars, frameVars, stateVars, faults, op, alignCall, uniVars, destroyed, bufVars>>

\* ------------------------------------------------------------------ Shader

\* ShaderData::isValid
IsValidData(d) == d # VK_NULL_HANDLE

\* A default-constructed Shader: mMaybeRunning{false}, empty mData, no future.
ShaderInit == [mMaybeRunning |-> FALSE, mData |-> VK_NULL_HANDLE,
               fut |-> "none", res |-> VK_NULL_HANDLE]

DataBlocks_Never(s) == FALSE

\* Shader::data, the wait: mFuture.result() blocks while the task is running.
DataBlocks(s) == s.mMaybeRunning /\ ~IsValidData(s.mData) /\ s.fut = "running"

AfterData_NoFetch(s) == s

\* Shader::data, the effect: the result is fetched when mMaybeRunning is set and
\* the cached mData is not valid; otherwise the cache is left as it is.
AfterData(s) ==
    IF s.mMaybeRunning /\ ~IsValidData(s.mData)
    THEN [s EXCEPT !.mData = s.res]
    ELSE s

AfterReset_KeepsRunning(s) == [AfterData(s) EXCEPT !.mData = VK_NULL_HANDLE]

\* Shader::reset: *data() = ShaderData(); mMaybeRunning = false.
AfterReset(s) == [AfterData(s) EXCEPT !.mData = VK_NULL_HANDLE, !.mMaybeRunning = FALSE]

LoadBlocks_NoReset(s) == FALSE

\* Shader::load, the wait: its first statement is reset(), which calls data().
LoadBlocks(s) == DataBlocks(s)

\* Shader::load: reset(); mMaybeRunning = true; mFuture = QtConcurrent::run(...).
AfterLoad(s) == [AfterReset(s) EXCEPT !.mMaybeRunning = TRUE, !.fut = "running",
                                      !.res = VK_NULL_HANDLE]

\* The handle value vkCreateShaderModule returns: one that is not in use.
FreeModules(h) == Modules \ liveMods[h]
NewModule(h) == CHOOSE m \in FreeModules(h) : \A n \in FreeModules(h) : m <= n

\* The ways the load task body can end.
LoadOutcomes == {"ok", "open_failed", "create_failed"}

\* The load task body (the lambda of Shader::load): on a failed open or a failed
\* vkCreateShaderModule it returns an empty ShaderData, else the new module.
ShaderTask(h) ==
    /\ ~aborted
    /\ UNCHANGED <<alignCall, uniVars, destroyed, bufVars>>
    /\ UNCHANGED rendererVars
    /\ sh[h].fut = "running"
    /\ \E out \in LoadOutcomes :
          /\ out = "ok" => FreeModules(h) # {}
          /\ out # "ok" => faults > 0
          /\ faults' = IF out = "ok" THEN faults ELSE faults - 1
          /\ LET m == IF out = "ok" THEN NewModule(h) ELSE VK_NULL_HANDLE IN
             /\ sh' = [sh EXCEPT ![h].fut = "done", ![h].res = m]
             /\ liveMods' = [liveMods EXCEPT ![h] = IF out = "ok" THEN @ \cup {m} ELSE @]
    /\ shInFlight' = [shInFlight EXCEPT ![h] = @ - 1]
    /\ shRuns' = [shRuns EXCEPT ![h] = @ + 1]
    /\ UNCHANGED op
    /\ UNCHANGED <<shRets, loads>>

\* A caller's load(): blocks in reset() until an earlier task has finished.
ShaderLoad(h) ==
    /\ ~aborted
    /\ UNCHANGED <<alignCall, uniVars, destroyed, bufVars>>
    /\ UNCHANGED faults
    /\ UNCHANGED rendererVars
    /\ loads[h] < MaxLoads
    /\ ~LoadBlocks(sh[h])
    /\ sh' = [sh EXCEPT ![h] = AfterLoad(@)]
    /\ shInFlight' = [shInFlight EXCEPT ![h] = @ + 1]
    /\ shRets' = [shRets EXCEPT ![h] = {}]
    /\ shRuns' = [shRuns EXCEPT ![h] = 0]
    /\ loads' = [loads EXCEPT ![h] = @ + 1]
    /\ op' = "load"
    /\ UNCHANGED liveMods

\* A caller's data().
ShaderDataCall(h) ==
    /\ ~aborted
    /\ UNCHANGED <<alignCall, uniVars, destroyed, bufVars>>
    /\ UNCHANGED faults
    /\ UNCHANGED rendererVars
    /\ ~DataBlocks(sh[h])
    /\ sh' = [sh EXCEPT ![h] = AfterData(@)]
    /\ shRets' = [shRets EXCEPT ![h] = @ \cup {AfterData(sh[h]).mData}]
    /\ op' = "data"
    /\ UNCHANGED <<shInFlight, liveMods, shRuns, loads>>

\* A caller's isValid(): data()->isValid().
ShaderIsValid(h) ==
    /\ ~aborted
    /\ UNCHANGED <<alignCall, uniVars, destroyed, bufVars>>
    /\ UNCHANGED faults
    /\ UNCHANGED rendererVars
    /\ ~DataBlocks(sh[h])
    /\ sh' = [sh EXCEPT ![h] = AfterData(@)]
    /\ op' = IF IsValidData(AfterData(sh[h]).mData) THEN "isValid:true" ELSE "isValid:false"
    /\ UNCHANGED <<shInFlight, liveMods, shRets, shRuns, loads>>

\* A caller's reset().
ShaderReset(h) ==
    /\ ~aborted
    /\ UNCHANGED <<alignCall, uniVars, destroyed, bufVars>>
    /\ UNCHANGED faults
    /\ UNCHANGED rendererVars
    /\ ~DataBlocks(sh[h])
    /\ sh' = [sh EXCEPT ![h] = AfterReset(@)]
    /\ shRets' = [shRets EXCEPT ![h] = {}]
    /\ op' = "reset"
    /\ UNCHANGED <<shInFlight, liveMods, shRuns, loads>>

\* The owner's teardown of one handle, as Renderer::releaseResources does it:
\* if (s.isValid()) { vkDestroyShaderModule(s.data()->shaderModule); s.reset(); }
ShaderDestroy(h) ==
    /\ ~aborted
    /\ UNCHANGED <<alignCall, uniVars, destroyed, bufVars>>
    /\ UNCHANGED faults
    /\ UNCHANGED rendererVars
    /\ ~DataBlocks(sh[h])
    /\ LET s == AfterData(sh[h]) IN
       IF IsValidData(s.mData)
       THEN /\ sh' = [sh EXCEPT ![h] = AfterReset(s)]
            /\ liveMods' = [liveMods EXCEPT ![h] = @ \ {s.mData}]
            /\ shRets' = [shRets EXCEPT ![h] = {}]
       ELSE /\ sh' = [sh EXCEPT ![h] = s]
            /\ UNCHANGED <<liveMods, shRets>>
    /\ op' = "destroy"
    /\ UNCHANGED <<shInFlight, shRuns, loads>>

\* -------------------------------------------------------------- utilities
\* VkDeviceSize is an unsigned integer of SizeBits bits: sums wrap.

RECURSIVE Pow2(_)
Pow2(n) == IF n = 0 THEN 1 ELSE 2 * Pow2(n - 1)

SizeLimit == Pow2(SizeBits)

\* The sizes aligned() is called with: those within SizeEdge of either end of
\* the range of VkDeviceSize.
Sizes == (0 .. (SizeEdge - 1)) \cup ((SizeLimit - SizeEdge) .. (SizeLimit - 1))

\* x & y on the low n bits.
RECURSIVE BitAnd(_, _, _)
BitAnd(x, y, n) ==
    IF n = 0 THEN 0
    ELSE (x % 2) * (y % 2) + 2 * BitAnd(x \div 2, y \div 2, n - 1)

\* ~x
BitNot(x) == SizeLimit - 1 - x

aligned_OffByOne(v, byteAlign) ==
    BitAnd((v + byteAlign) % SizeLimit, BitNot((byteAlign - 1) % SizeLimit), SizeBits)

\* aligned: (v + byteAlign - 1) & ~(byteAlign - 1)
aligned(v, byteAlign) ==
    BitAnd((v + byteAlign - 1) % SizeLimit, BitNot((byteAlign - 1) % SizeLimit), SizeBits)

\* The power-of-two alignments a VkDeviceSize can hold.
Alignments == {Pow2(k) : k \in 0 .. (SizeBits - 1)}

\* A call of aligned() with any size and any power-of-two alignment.
AlignedCall ==
    /\ \E v \in Sizes, a \in Alignments :
          alignCall' = [v |-> v, byteAlign |-> a, result |-> aligned(v, a)]
    /\ UNCHANGED <<shVars, rendererVars, faults, op, uniVars, destroyed, bufVars>>

\* ------------------------------------------------- the item uniform blocks
\* Sizes and offsets are bytes.  A memcpy is the pair [at, len]: len bytes
\* written at offset `at` from the pointer the block starts at.

\* minUniformBufferOffsetAlignment of the devices considered: a power of two.
UniformAlignments == {16, 256}

\* The device's alignment where it is not the subject.
UniformAlignment == 64

\* The arguments of aligned() in initResources: 2x mat4, 1x mat3; then
\* 6 * 16 + 12 + 2 * 4.
VertUniBytes == 2 * 64 + 48
FragUniBytes == 6 * 16 + 12 + 2 * 4

VertUniSize_Unaligned(a) == VertUniBytes

\* mItemMaterial.vertUniSize and .fragUniSize as initResources sets them.
VertUniSize(a) == aligned(VertUniBytes, a)
FragUniSize(a) == aligned(FragUniBytes, a)

\* buildDrawCallsForItems, the vertex shader uniforms: vp, model, and the three
\* rows of modelNormal.
VertWrites == {[at |-> 0, len |-> 64], [at |-> 64, len |-> 64], [at |-> 128, len |-> 12],
               [at |-> 128 + 16, len |-> 12], [at |-> 128 + 32, len |-> 12]}

FragFields_Padded == << <<12, 16>>, <<12, 16>>, <<12, 16>>, <<12, 16>>, <<12, 16>>,
                        <<12, 16>>, <<12, 16>>, <<4, 4>>, <<4, 4>> >>

\* writeFragUni, statement by statement: <<n, d>> is memcpy(p, ..., n); p += d.
\* ECCameraPosition, ka, kd, ks, ECLightPosition, att, color, intensity,
\* specularExp.
FragFields == << <<12, 16>>, <<12, 16>>, <<12, 16>>, <<12, 16>>, <<12, 16>>,
                 <<12, 16>>, <<12, 12>>, <<4, 4>>, <<4, 4>> >>

\* The memcpys of the statements i .. Len(fields), p being at offset `at`.
RECURSIVE WritesFrom(_, _, _)
WritesFrom(fields, i, at) ==
    IF i > Len(fields) THEN {}
    ELSE {[at |-> at, len |-> fields[i][1]]} \cup WritesFrom(fields, i + 1, at + fields[i][2])

\* writeFragUni
FragWrites == WritesFrom(FragFields, 1, 0)

\* The vertex counts of the block and the logo mesh, and sizeof(quadVert).
BlockVertexCount == 36
LogoVertexCount == 6
QuadVertBytes == 12 * 4

\* vkGetBufferMemoryRequirements: the alignment the device asks for a vertex
\* buffer, and for a buffer of `size` bytes a size that holds it.
MemAlignment == 16
MemReq(size, alignment) == [size |-> aligned(size, alignment), alignment |-> alignment]

\* ensureBuffers: bufInfo.size of the uniform buffer.
UniBufSize(m) == ((m.vertUniSize + m.fragUniSize) * ConcurrentFrameCount) % SizeLimit

\* The alignments a device may require of a vertex buffer's memory.
MemAlignments == {16, 256}

\* The buffers of ensureBuffers, in the order their memory is laid out.
LayoutOrder == <<"blockVertexBuf", "logoVertexBuf", "floorVertexBuf", "uniBuf">>

StartOffset_Packed(end, alignment) == end

\* The start offset of a buffer whose predecessor ends at `end`.
StartOffset(end, alignment) == aligned(end, alignment)

\* ensureBuffers, "Allocate memory for everything at once": the memory
\* requirements of the four buffers (va is the alignment the device requires
\* of a vertex buffer, a its minUniformBufferOffsetAlignment), their start
\* offsets in mBufMem and memAllocInfo.allocationSize.
MemLayout(m, a, va) ==
    LET blockVertMemReq == MemReq(BlockVertexCount * 8 * 4, va)
        logoVertMemReq == MemReq(LogoVertexCount * 8 * 4, va)
        floorVertMemReq == MemReq(QuadVertBytes, va)
        uniMemReq == MemReq(UniBufSize(m), IF a > va THEN a ELSE va)
        logoVertStartOffset == StartOffset(0 + blockVertMemReq.size,
                                           logoVertMemReq.alignment)
        floorVertStartOffset == StartOffset(logoVertStartOffset + logoVertMemReq.size,
                                            floorVertMemReq.alignment)
        uniMemStartOffset == StartOffset(floorVertStartOffset + floorVertMemReq.size,
                                         uniMemReq.alignment)
    IN [req |-> [blockVertexBuf |-> blockVertMemReq, logoVertexBuf |-> logoVertMemReq,
                 floorVertexBuf |-> floorVertMemReq, uniBuf |-> uniMemReq],
        offset |-> [blockVertexBuf |-> 0, logoVertexBuf |-> logoVertStartOffset,
                    floorVertexBuf |-> floorVertStartOffset, uniBuf |-> uniMemStartOffset],
        allocationSize |-> (uniMemStartOffset + uniMemReq.size) % SizeLimit]

\* No ensureBuffers has run.
NoLayout ==
    LET bufs == {LayoutOrder[i] : i \in 1..Len(LayoutOrder)} IN
    [req |-> [b \in bufs |-> [size |-> 0, alignment |-> 1]],
     offset |-> [b \in bufs |-> 0],
     allocationSize |-> 0]

\* The device calls and memcpys of ensureBuffers in program order.
EnsureBuffersSteps ==
    << [do |-> "create", on |-> "blockVertexBuf"], [do |-> "create", on |-> "logoVertexBuf"],
       [do |-> "create", on |-> "floorVertexBuf"], [do |-> "create", on |-> "uniBuf"],
       [do |-> "allocate", on |-> "bufMem"],
       [do |-> "bind", on |-> "blockVertexBuf"], [do |-> "bind", on |-> "logoVertexBuf"],
       [do |-> "bind", on |-> "floorVertexBuf"], [do |-> "bind", on |-> "uniBuf"],
       [do |-> "map", on |-> "bufMem"],
       [do |-> "copy", on |-> "blockVertexBuf"], [do |-> "copy", on |-> "logoVertexBuf"],
       [do |-> "copy", on |-> "floorVertexBuf"],
       [do |-> "unmap", on |-> "bufMem"],
       [do |-> "update", on |-> "descriptorSet"] >>

\* buildDrawCallsForItems: frameUniOffset for the current-frame index k.
FrameUniOffset(k, m) == (k * (m.vertUniSize + m.fragUniSize)) % SizeLimit

MapRange_NoOffset(k, m) ==
    [from |-> m.uniMemStartOffset,
     to |-> m.uniMemStartOffset + m.vertUniSize + m.fragUniSize]

\* The range of mBufMem that vkMapMemory maps for the current-frame index k.
MapRange(k, m) ==
    [from |-> m.uniMemStartOffset + FrameUniOffset(k, m),
     to |-> m.uniMemStartOffset + FrameUniOffset(k, m) + m.vertUniSize + m.fragUniSize]

\* The byte ranges of mBufMem the memcpys of buildDrawCallsForItems and
\* writeFragUni write: p is the mapped pointer, then p += vertUniSize.
BuildWrites(k, m) ==
    LET p == MapRange(k, m).from IN
    {[from |-> p + w.at, to |-> p + w.at + w.len] : w \in VertWrites}
    \cup {[from |-> p + m.vertUniSize + w.at, to |-> p + m.vertUniSize + w.at + w.len] :
             w \in FragWrites}

\* Some byte of range r is written by a write of ws.
Touches(ws, r) == \E w \in ws : w.from < r.to /\ r.from < w.to

Slots == 0 .. (ConcurrentFrameCount - 1)

\* The range of mBufMem that holds the vertex data.
VertexRange(m) == [from |-> 0, to |-> m.uniMemStartOffset]

\* The view-projection of slot j after the writes ws: written whole (the first
\* 64 bytes of the slot), damaged by a write that is not that, or as before.
SlotVpAfter(ws, j, m, before) ==
    IF [from |-> MapRange(j, m).from, to |-> MapRange(j, m).from + 64] \in ws THEN "fresh"
    ELSE IF Touches(ws, MapRange(j, m)) THEN "clobbered"
    ELSE before

\* getMatrices: the model matrix is the identity, rotated by 90 degrees about
\* x if mUseLogo, then by mRotation about (1, 1, 0).  It is held as the pair it
\* is computed from.
ModelMatrix(useLogo, rotation) == [useLogo |-> useLogo, rotation |-> rotation]

\* What a slot holds where no model matrix was written.
NoModel == [useLogo |-> FALSE, rotation |-> -1]

\* The model matrix of slot j after the writes ws of a build whose model matrix
\* is `model`: bytes 64 .. 127 of the slot.
SlotModelAfter(ws, j, m, before, model) ==
    LET r == [from |-> MapRange(j, m).from + 64, to |-> MapRange(j, m).from + 128] IN
    IF r \in ws THEN model
    ELSE IF Touches(ws, r) THEN NoModel
    ELSE before

\* The view or the projection has changed: what the slots hold is out of date.
Outdated(vp) == [j \in Slots |-> IF vp[j] = "fresh" THEN "stale" ELSE vp[j]]

ReleaseOrder_ByClass == <<"descriptorSetLayout", "descriptorPool", "itemPipeline",
                          "floorPipeline", "itemPipelineLayout", "floorPipelineLayout",
                          "pipelineCache", "blockVertexBuf", "logoVertexBuf",
                          "floorVertexBuf", "uniBuf", "instBuf", "bufMem", "instBufMem">>

\* The statements of releaseResources that destroy an object, in program
\* order, and the shaders in the order it destroys their modules.
ReleaseOrder == <<"descriptorSetLayout", "descriptorPool", "itemPipeline",
                  "itemPipelineLayout", "floorPipeline", "floorPipelineLayout",
                  "pipelineCache", "blockVertexBuf", "logoVertexBuf", "floorVertexBuf",
                  "uniBuf", "bufMem", "instBuf", "instBufMem">>
ShaderOrder == <<"itemVs", "itemFs", "floorVs", "floorFs">>

\* ------------------------------------------------------------------ Camera
\* Angles are whole degrees.  A float that is a vector or matrix component is
\* held as a whole number of 1/Scale; the components of a quarter turn are
\* exact (0, Scale, -Scale), as QMatrix4x4::rotate makes them.

\* 1.0f
Scale == 10000

\* sinf of 0 .. 90 degrees, in 1/Scale.
SinTable == <<
    0, 175, 349, 523, 698, 872, 1045, 1219, 1392, 1564, 1736, 1908, 2079,
    2250, 2419, 2588, 2756, 2924, 3090, 3256, 3420, 3584, 3746, 3907, 4067, 4226,
    4384, 4540, 4695, 4848, 5000, 5150, 5299, 5446, 5592, 5736, 5878, 6018, 6157,
    6293, 6428, 6561, 6691, 6820, 6947, 7071, 7193, 7314, 7431, 7547, 7660, 7771,
    7880, 7986, 8090, 8192, 8290, 8387, 8480, 8572, 8660, 8746, 8829, 8910, 8988,
    9063, 9135, 9205, 9272, 9336, 9397, 9455, 9511, 9563, 9613, 9659, 9703, 9744,
    9781, 9816, 9848, 9877, 9903, 9925, 9945, 9962, 9976, 9986, 9994, 9998, 10000 >>

Sin(a) ==
    LET r == a % 360 IN
    IF r <= 90 THEN SinTable[r + 1]
    ELSE IF r <= 180 THEN SinTable[180 - r + 1]
    ELSE IF r <= 270 THEN -SinTable[r - 180 + 1]
    ELSE -SinTable[360 - r + 1]
Cos(a) == Sin(a + 90)

\* QMatrix4x4::rotate(a, 0, 1, 0) and rotate(a, 1, 0, 0) on the identity (rows).
RotY(a) == << <<Cos(a), 0, Sin(a)>>, <<0, Scale, 0>>, <<-Sin(a), 0, Cos(a)>> >>
RotX(a) == << <<Scale, 0, 0>>, <<0, Cos(a), -Sin(a)>>, <<0, Sin(a), Cos(a)>> >>

\* A product of two components, rounded to 1/Scale.
Rescale(x) == (2 * x + Scale) \div (2 * Scale)

\* QMatrix4x4 * QMatrix4x4 and QVector4D * QMatrix4x4 (row vector times matrix),
\* on the rotation part.
MatMul(A, B) == [i \in 1..3 |-> [j \in 1..3 |->
                    Rescale(A[i][1] * B[1][j] + A[i][2] * B[2][j] + A[i][3] * B[3][j])]]
VecMat_Column(v, M) == [i \in 1..3 |->
                           Rescale(M[i][1] * v[1] + M[i][2] * v[2] + M[i][3] * v[3])]

VecMat(v, M) == [j \in 1..3 |->
                    Rescale(v[1] * M[1][j] + v[2] * M[2][j] + v[3] * M[3][j])]

\* The vectors the camera's basis is derived from.
CanonForward == <<0, 0, -Scale>>
CanonRight == <<Scale, 0, 0>>
CanonUp == <<0, Scale, 0>>

\* Camera::Camera(pos), with pos = (0, 0, 20) as Renderer::Renderer passes it.
CameraInit == [mForward |-> CanonForward, mRight |-> CanonRight, mUp |-> CanonUp,
               mPos |-> <<0, 0, 20 * Scale>>, mYaw |-> 0, mPitch |-> 0,
               mYawMatrix |-> RotY(0), mPitchMatrix |-> RotX(0)]

clamp360_None(v) == v

clamp360_Modulo(v) == IF v >= 0 THEN v % 360 ELSE -((-v) % 360)

\* clamp360: one subtraction if above 360, then one addition if below -360.
clamp360(v) ==
    LET w == IF v > 360 THEN v - 360 ELSE v
    IN IF w < -360 THEN w + 360 ELSE w

CameraYaw(c, degrees) ==
    LET y == clamp360(c.mYaw + degrees)
        rotMat == MatMul(c.mPitchMatrix, RotY(y))
    IN [c EXCEPT !.mYaw = y, !.mYawMatrix = RotY(y),
                 !.mForward = VecMat(CanonForward, rotMat),
                 !.mRight = VecMat(CanonRight, rotMat)]

CameraPitch(c, degrees) ==
    LET q == clamp360(c.mPitch + degrees)
        rotMat == MatMul(RotX(q), c.mYawMatrix)
    IN [c EXCEPT !.mPitch = q, !.mPitchMatrix = RotX(q),
                 !.mForward = VecMat(CanonForward, rotMat),
                 !.mUp = VecMat(CanonUp, rotMat)]

CameraWalk_Along(c, amount) ==
    [c EXCEPT !.mPos[1] = @ + amount * c.mForward[1],
              !.mPos[2] = @ + amount * c.mForward[2],
              !.mPos[3] = @ + amount * c.mForward[3]]

CameraWalk(c, amount) ==
    [c EXCEPT !.mPos[1] = @ + amount * c.mForward[1],
              !.mPos[3] = @ + amount * c.mForward[3]]

CameraStrafe(c, amount) ==
    [c EXCEPT !.mPos[1] = @ + amount * c.mRight[1],
              !.mPos[3] = @ + amount * c.mRight[3]]

\* The commands the control layer issues while frames are rendered.
CamDegrees == {90}
CamAmounts == {1}

\* ---------------------------------------------------------------- Renderer

PipelineObjects == {"pipelineCache", "descriptorPool", "descriptorSetLayout",
                    "itemPipelineLayout", "itemPipeline",
                    "floorPipelineLayout", "floorPipeline"}
StaticBuffers == {"blockVertexBuf", "logoVertexBuf", "floorVertexBuf", "uniBuf"}
InstanceObjects == {"instBuf", "instBufMem"}
Objects == PipelineObjects \cup StaticBuffers \cup {"bufMem"} \cup InstanceObjects

\* What a checked device call can return: an error only while the environment
\* still has a fault to produce.
VkResults == {"VK_SUCCESS", "VK_ERROR"}
DeviceResults == IF faults > 0 THEN VkResults ELSE {"VK_SUCCESS"}

Min(a, b) == IF a < b THEN a ELSE b

Abort_Continues(why) ==
    /\ aborted' = aborted
    /\ UNCHANGED faults
    /\ op' = why
    /\ UNCHANGED <<shVars, win, handles, objCount, descSet, pipePc, badPipes, earlyUse,
                   frameVars, stateVars, uniVars, destroyed, bufVars>>

\* qFatal / a failed Q_ASSERT: the process ends where it is.
Abort(why) ==
    /\ aborted' = TRUE
    /\ UNCHANGED faults
    /\ op' = why
    /\ UNCHANGED <<shVars, win, handles, objCount, descSet, pipePc, badPipes, earlyUse,
                   frameVars, stateVars, uniVars, destroyed, bufVars>>

\* vkCreate* / vkAllocateMemory storing into the members os.
Created(os) == [o \in Objects |-> IF o \in os THEN objCount[o] + 1 ELSE objCount[o]]

PipeProgram_NoWait == <<
    [kind |-> "create", arg |-> "pipelineCache"],
    [kind |-> "create", arg |-> "descriptorPool"],
    [kind |-> "create", arg |-> "descriptorSetLayout"],
    [kind |-> "allocSet", arg |-> "descriptorSet"],
    [kind |-> "create", arg |-> "itemPipelineLayout"],
    [kind |-> "pipeline", arg |-> "itemPipeline"],
    [kind |-> "data", arg |-> "itemVs"],
    [kind |-> "data", arg |-> "itemFs"],
    [kind |-> "create", arg |-> "floorPipelineLayout"],
    [kind |-> "pipeline", arg |-> "floorPipeline"],
    [kind |-> "data", arg |-> "floorVs"],
    [kind |-> "data", arg |-> "floorFs"] >>

\* createPipelines with createItemPipeline and createFloorPipeline inlined: the
\* task's statements that create, wait or allocate, in program order.
PipeProgram == <<
    [kind |-> "create", arg |-> "pipelineCache"],
    [kind |-> "create", arg |-> "descriptorPool"],
    [kind |-> "create", arg |-> "descriptorSetLayout"],
    [kind |-> "allocSet", arg |-> "descriptorSet"],
    [kind |-> "create", arg |-> "itemPipelineLayout"],
    [kind |-> "data", arg |-> "itemVs"],
    [kind |-> "data", arg |-> "itemFs"],
    [kind |-> "pipeline", arg |-> "itemPipeline"],
    [kind |-> "create", arg |-> "floorPipelineLayout"],
    [kind |-> "data", arg |-> "floorVs"],
    [kind |-> "data", arg |-> "floorFs"],
    [kind |-> "pipeline", arg |-> "floorPipeline"] >>

PipeDone == Len(PipeProgram) + 1
PipeRunning == pipePc \in 1..Len(PipeProgram)
PipelinesFinished_NoWait == TRUE

\* QFuture::waitForFinished on mPipelinesFuture returns at once when the task
\* has finished or none was ever started.
PipelinesFinished == pipePc \in {0, PipeDone}

\* The shader handles of a pipeline's two stages.
StagesOf(p) == IF p = "itemPipeline" THEN {"itemVs", "itemFs"} ELSE {"floorVs", "floorFs"}

\* --- lifecycle hooks (GUI thread)

\* Renderer::initResources: mAnimating = true; mFramePending = false; each shader
\* is loaded unless isValid(); createPipelines is run on the thread pool.
InitResources ==
    /\ ~aborted
    /\ UNCHANGED <<alignCall, uniformAlignment, uniBufSize, currentFrame, frameUniOffset,
                   uniWrites, slotVp, vertData>>
    /\ mItemMaterial' = [mItemMaterial EXCEPT !.vertUniSize = VertUniSize(uniformAlignment),
                                              !.fragUniSize = FragUniSize(uniformAlignment)]
    /\ destroyed' = <<>>
    /\ UNCHANGED bufVars
    /\ UNCHANGED faults
    /\ win = "none"
    /\ \A h \in Handles : ~DataBlocks(sh[h])
    /\ LET toLoad == {h \in Handles : ~IsValidData(AfterData(sh[h]).mData)} IN
       /\ sh' = [h \in Handles |-> IF h \in toLoad THEN AfterLoad(AfterData(sh[h]))
                                                  ELSE AfterData(sh[h])]
       /\ shInFlight' = [h \in Handles |-> IF h \in toLoad THEN shInFlight[h] + 1
                                                           ELSE shInFlight[h]]
       /\ shRets' = [h \in Handles |-> IF h \in toLoad THEN {} ELSE shRets[h]]
       /\ shRuns' = [h \in Handles |-> IF h \in toLoad THEN 0 ELSE shRuns[h]]
    /\ mAnimating' = TRUE
    /\ mFramePending' = FALSE
    /\ pipePc' = 1
    /\ win' = "device"
    /\ op' = "initResources"
    /\ UNCHANGED <<liveMods, loads, aborted, handles, objCount, descSet, badPipes, earlyUse,
                   task, watched, finishedQueued, mGuiMutex, notifs, frames,
                   mUseLogo, mInstCount, mPreparedInstCount, mRotation, mVpDirty, mCam,
                   adds, camOps, instVars, camArg>>

\* QVulkanWindow hands out the frame slots in turn: frameReady() ends the
\* frame and moves to the next index.
NextFrameIndex(k) == (k + 1) % ConcurrentFrameCount

markViewProjDirty_One == ConcurrentFrameCount - 1

\* Renderer::markViewProjDirty
markViewProjDirty == ConcurrentFrameCount

\* Renderer::initSwapChainResources: the projection is recomputed and every
\* frame slot's view-projection is marked dirty.
InitSwapChainResources ==
    /\ ~aborted
    /\ UNCHANGED <<alignCall, uniformAlignment, mItemMaterial, uniBufSize, currentFrame,
                   frameUniOffset, uniWrites, vertData, destroyed, bufVars>>
    /\ slotVp' = Outdated(slotVp)
    /\ UNCHANGED faults
    /\ win = "device"
    /\ mVpDirty' = markViewProjDirty
    /\ win' = "swapchain"
    /\ op' = "initSwapChainResources"
    /\ UNCHANGED <<shVars, aborted, handles, objCount, descSet, pipePc, badPipes, earlyUse,
                   frameVars, mAnimating, mUseLogo, mInstCount, mPreparedInstCount,
                   mRotation, mCam, adds, camOps, instVars, camArg>>

\* The build tasks that have been dispatched and have not returned.
InFlight == {t \in 1..MaxTasks : task[t] # "idle"}

WatchedFinished_NoWait == TRUE

\* mFrameWatcher.waitForFinished() returns: the watched future has finished, or
\* the watcher has no future.
WatchedFinished == IF watched = 0 THEN TRUE ELSE task[watched] = "idle"

\* Renderer::releaseSwapChainResources: waits for the watched frame build, then,
\* if a frame is pending, clears the flag and calls frameReady().
ReleaseSwapChainResources ==
    /\ ~aborted
    /\ UNCHANGED <<alignCall, uniformAlignment, mItemMaterial, uniBufSize, frameUniOffset,
                   uniWrites, slotVp, vertData, destroyed, bufVars>>
    /\ currentFrame' = IF mFramePending THEN NextFrameIndex(currentFrame) ELSE currentFrame
    /\ UNCHANGED faults
    /\ win = "swapchain"
    /\ WatchedFinished
    /\ mFramePending' = FALSE
    /\ notifs' = IF mFramePending THEN notifs + 1 ELSE notifs
    /\ win' = "device"
    /\ op' = "releaseSwapChainResources"
    /\ UNCHANGED <<shVars, aborted, handles, objCount, descSet, pipePc, badPipes, earlyUse,
                   task, watched, finishedQueued, mGuiMutex, frames, stateVars>>

\* Renderer::releaseResources: waits for createPipelines, destroys every object
\* whose handle is not null and nulls the handle, then for each shader that
\* isValid() destroys its module and reset()s the handle.
ReleaseResources ==
    /\ ~aborted
    /\ UNCHANGED <<alignCall, uniformAlignment, mItemMaterial, uniBufSize, currentFrame,
                   frameUniOffset, uniWrites>>
    /\ destroyed' = SelectSeq(ReleaseOrder, LAMBDA o : o \in handles)
                     \o SelectSeq(ShaderOrder,
                                  LAMBDA h : IsValidData(AfterData(sh[h]).mData))
    /\ slotVp' = [j \in Slots |-> "none"]
    /\ vertData' = "none"
    /\ slotModel' = [j \in Slots |-> NoModel]
    /\ devInstData' = {}
    /\ UNCHANGED <<memAlignment, memPlan, bufSteps, instDataSize, instBufSize, upload,
                   buildUploaded, drawCount>>
    /\ UNCHANGED faults
    /\ win = "device"
    /\ PipelinesFinished
    /\ \A h \in Handles : ~DataBlocks(sh[h])
    /\ objCount' = [o \in Objects |-> IF o \in handles THEN objCount[o] - 1 ELSE objCount[o]]
    /\ handles' = {}
    /\ descSet' = IF descSet = "valid" /\ "descriptorPool" \in handles THEN "stale" ELSE descSet
    /\ sh' = [h \in Handles |-> IF IsValidData(AfterData(sh[h]).mData)
                                THEN AfterReset(AfterData(sh[h]))
                                ELSE AfterData(sh[h])]
    /\ liveMods' = [h \in Handles |-> liveMods[h] \ {AfterData(sh[h]).mData}]
    /\ shRets' = [h \in Handles |-> IF IsValidData(AfterData(sh[h]).mData) THEN {}
                                    ELSE shRets[h]]
    /\ win' = "none"
    /\ op' = "releaseResources"
    /\ UNCHANGED <<shInFlight, shRuns, loads, aborted, pipePc, badPipes, earlyUse,
                   frameVars, stateVars>>

\* --- the pipeline-creation task (thread pool)

\* A statement of createPipelines that creates one device object through a
\* checked call: qFatal unless the call returns VK_SUCCESS.
PipelineCreate ==
    /\ ~aborted
    /\ UNCHANGED alignCall
    /\ UNCHANGED faults
    /\ PipeRunning
    /\ PipeProgram[pipePc].kind = "create"
    /\ \E r \in DeviceResults :
          IF r # "VK_SUCCESS" THEN Abort("qFatal:createPipelines")
          ELSE /\ handles' = handles \cup {PipeProgram[pipePc].arg}
               /\ objCount' = Created({PipeProgram[pipePc].arg})
               /\ pipePc' = pipePc + 1
               /\ UNCHANGED op
               /\ UNCHANGED <<shVars, win, aborted, descSet, badPipes, earlyUse,
                              frameVars, stateVars, uniVars, destroyed, bufVars>>

\* vkAllocateDescriptorSets in createItemPipeline.
PipelineAllocSet ==
    /\ ~aborted
    /\ UNCHANGED alignCall
    /\ UNCHANGED faults
    /\ PipeRunning
    /\ PipeProgram[pipePc].kind = "allocSet"
    /\ \E r \in DeviceResults :
          IF r # "VK_SUCCESS" THEN Abort("qFatal:createPipelines")
          ELSE /\ descSet' = "valid"
               /\ pipePc' = pipePc + 1
               /\ UNCHANGED op
               /\ UNCHANGED <<shVars, win, aborted, handles, objCount, badPipes, earlyUse,
                              frameVars, stateVars, uniVars, destroyed, bufVars>>

\* A stage's module: vs.data()->shaderModule, fs.data()->shaderModule.  The
\* task blocks in data() until the shader's load has finished.
PipelineShaderData ==
    /\ ~aborted
    /\ UNCHANGED <<alignCall, uniVars, destroyed, bufVars>>
    /\ UNCHANGED faults
    /\ PipeRunning
    /\ PipeProgram[pipePc].kind = "data"
    /\ ~DataBlocks(sh[PipeProgram[pipePc].arg])
    /\ sh' = [sh EXCEPT ![PipeProgram[pipePc].arg] = AfterData(@)]
    /\ pipePc' = pipePc + 1
    /\ UNCHANGED op
    /\ UNCHANGED <<shInFlight, liveMods, shRets, shRuns, loads, win, aborted, handles,
                   objCount, descSet, badPipes, earlyUse, frameVars, stateVars>>

\* vkCreateGraphicsPipelines with the two stage modules as they are: the code
\* does not test them.  A null module is invalid usage, on which the driver may
\* return an error (qFatal) or VK_SUCCESS.
PipelineCreatePipeline ==
    /\ ~aborted
    /\ UNCHANGED alignCall
    /\ UNCHANGED faults
    /\ PipeRunning
    /\ PipeProgram[pipePc].kind = "pipeline"
    /\ LET p == PipeProgram[pipePc].arg
           nullStage == \E h \in StagesOf(p) : ~IsValidData(sh[h].mData)
       IN \E r \in (IF nullStage THEN VkResults ELSE DeviceResults) :
             IF r # "VK_SUCCESS" THEN Abort("qFatal:createPipelines")
             ELSE /\ handles' = handles \cup {p}
                  /\ objCount' = Created({p})
                  /\ badPipes' = IF nullStage THEN badPipes \cup {p} ELSE badPipes
                  /\ pipePc' = pipePc + 1
                  /\ UNCHANGED op
                  /\ UNCHANGED <<shVars, win, aborted, descSet, earlyUse,
                                 frameVars, stateVars, uniVars, destroyed, bufVars>>

\* --- the frame-pending protocol

AssertFramePending_Off == FALSE

\* Q_ASSERT(!mFramePending) in Renderer::startNextFrame fails.
AssertFramePending == mFramePending

\* The thread-pool slot QtConcurrent::run gives the next task.
FreeSlot == CHOOSE t \in 1..MaxTasks : task[t] = "idle" /\ \A u \in 1..MaxTasks :
                                           task[u] = "idle" => t <= u

SetFutureKeepsQueue_Stale == finishedQueued

\* QFutureWatcher::setFuture: the watcher is disconnected from the previous
\* future, which removes the call-out events it has posted and not delivered.
SetFutureKeepsQueue == FALSE

\* Renderer::startNextFrame: Q_ASSERT(!mFramePending); mFramePending = true;
\* buildFrame is run on the thread pool and mFrameWatcher watches its future.
StartFrame ==
    /\ ~aborted
    /\ UNCHANGED <<alignCall, uniVars, destroyed, bufVars>>
    /\ UNCHANGED faults
    /\ win = "swapchain"
    /\ \E t \in 1..MaxTasks : task[t] = "idle"
    /\ IF AssertFramePending
       THEN /\ aborted' = TRUE
            /\ frames' = frames + 1
            /\ op' = "Q_ASSERT:startNextFrame"
            /\ UNCHANGED <<shVars, win, handles, objCount, descSet, pipePc, badPipes,
                           earlyUse, mFramePending, task, watched, finishedQueued,
                           mGuiMutex, notifs, stateVars>>
       ELSE /\ mFramePending' = TRUE
            /\ task' = [task EXCEPT ![FreeSlot] = "lock"]
            /\ watched' = FreeSlot
            /\ finishedQueued' = SetFutureKeepsQueue
            /\ notifs' = 0
            /\ frames' = frames + 1
            /\ op' = "startNextFrame"
            /\ UNCHANGED <<shVars, lifeVars, mGuiMutex, stateVars>>

\* The calls of startNextFrame the surface owner issues.
StartNextFrame == frames < MaxFrames /\ StartFrame

\* The handler connected to mFrameWatcher's finished(): it runs on the GUI
\* thread when the posted Finished event is delivered.
FrameFinished ==
    /\ ~aborted
    /\ UNCHANGED <<alignCall, uniformAlignment, mItemMaterial, uniBufSize, frameUniOffset,
                   uniWrites, slotVp, vertData, destroyed, bufVars>>
    /\ currentFrame' = IF mFramePending THEN NextFrameIndex(currentFrame) ELSE currentFrame
    /\ UNCHANGED faults
    /\ finishedQueued
    /\ finishedQueued' = FALSE
    /\ mFramePending' = FALSE
    /\ notifs' = IF mFramePending THEN notifs + 1 ELSE notifs
    /\ op' = "finished"
    /\ UNCHANGED <<shVars, lifeVars, task, watched, mGuiMutex, frames, stateVars>>

\* --- the frame-build task (thread pool)

\* The pipeline task's products may be used: mPipelinesFuture has finished.
PipelineProductsReady == pipePc = PipeDone
UsedEarly(objs) == IF PipelineProductsReady THEN {} ELSE objs

\* --- the instance records (Renderer::ensureInstanceBuffer)
\* mInstData is held as a set of runs [from, to, first]: the records of the
\* indices from .. to - 1 were generated by consecutive draws, the first of
\* them being draw number `first`.  A record is identified with the number of
\* the draw that produced it; an index in no run holds no generated record.

Covered(store, i) == \E r \in store : r.from <= i /\ i < r.to

\* The record at index i: the number of its draw, or 0 when none was generated.
RecordAt(store, i) ==
    IF Covered(store, i)
    THEN LET r == CHOOSE q \in store : q.from <= i /\ i < q.to IN r.first + (i - r.from)
    ELSE 0

\* The indices that hold a generated record.
Generated(store) == UNION {r.from .. (r.to - 1) : r \in store}

\* What is left of run r when the indices from .. to - 1 are overwritten.
Remains(r, from, to) ==
    (IF r.from < from
     THEN {[from |-> r.from, to |-> Min(r.to, from), first |-> r.first]} ELSE {})
    \cup
    (IF r.to > to
     THEN {[from |-> IF r.from > to THEN r.from ELSE to, to |-> r.to,
            first |-> r.first + ((IF r.from > to THEN r.from ELSE to) - r.from)]}
     ELSE {})

\* The loop of ensureInstanceBuffer: for (i = from; i < to; ++i) a new record
\* is drawn and written at index i.  The draws are numbered next, next + 1, ...
\* A run that ends where the new one begins, with the preceding draw numbers,
\* is continued by it.
WriteRecords(store, from, to, next) ==
    IF from >= to THEN store
    ELSE LET kept == UNION {Remains(r, from, to) : r \in store}
             prev == {r \in kept : r.to = from /\ r.first + (r.to - r.from) = next}
         IN IF prev = {}
            THEN kept \cup {[from |-> from, to |-> to, first |-> next]}
            ELSE LET q == CHOOSE r \in prev : TRUE
                 IN (kept \ {q}) \cup {[from |-> q.from, to |-> to, first |-> q.first]}

\* One instance record: instTranslate, instDiffuseAdjust.
PER_INSTANCE_DATA_SIZE == 6 * 4

\* bufInfo.size of the instance buffer; mInstData is resized to it.
InstBufBytes == MAX_INSTANCES * PER_INSTANCE_DATA_SIZE

\* The upload: vkMapMemory(dev, mInstBufMem, 0, mInstCount *
\* PER_INSTANCE_DATA_SIZE, ...), then memcpy(p, mInstData.constData(),
\* mInstData.size()).
Upload(count, storeSize) ==
    [mapped |-> count * PER_INSTANCE_DATA_SIZE, copied |-> storeSize]

\* buildDrawCallsForItems: vkCmdDraw(cb, vertexCount, mInstCount, 0, 0).
DrawInstanceCount(count, prepared) == count

AllocatesInstBuf_Always(hasBuf) == TRUE

\* if (!mInstBuf): "allocate only once, for the maximum instance count".
AllocatesInstBuf(hasBuf) == ~hasBuf

EnsureIsNoOp_Never(count, prepared, hasBuf) == FALSE

\* if (mInstCount == mPreparedInstCount && mInstBuf) return;
EnsureIsNoOp(count, prepared, hasBuf) == count = prepared /\ hasBuf

AssertInstCount_Off(count) == FALSE

\* Q_ASSERT(mInstCount <= MAX_INSTANCES) in ensureInstanceBuffer fails.
AssertInstCount(count) == count > MAX_INSTANCES

GenerateFrom_Zero(prepared) == 0

\* The first index the generation loop writes: i = mPreparedInstCount.
GenerateFrom(prepared) == prepared

\* Renderer::buildFrame up to mPipelinesFuture.waitForFinished(): the lock is
\* taken, then ensureBuffers() and ensureInstanceBuffer() run.
\* ensureBuffers: unless mBlockVertexBuf exists, the four static buffers and
\* their memory are created and the descriptor set is written
\* (vkUpdateDescriptorSets on mItemMaterial.descriptorSet: on a handle that is
\* not a live set the driver may crash or carry on).
\* ensureInstanceBuffer: nothing when the prepared count is the requested one
\* and mInstBuf exists; else Q_ASSERT(mInstCount <= MAX_INSTANCES), the buffer
\* and its memory are created if missing, the missing records are generated
\* and the store is uploaded (a memcpy that goes past the end of the mapped
\* range may crash or carry on).
BuildFrameEnsure(t) ==
    /\ ~aborted
    /\ UNCHANGED alignCall
    /\ UNCHANGED faults
    /\ task[t] = "lock"
    /\ mGuiMutex = 0
    /\ LET needBufs == "blockVertexBuf" \notin handles
           needInst == ~EnsureIsNoOp(mInstCount, mPreparedInstCount, "instBuf" \in handles)
           regen == needInst /\ mInstCount # mPreparedInstCount
           from == GenerateFrom(mPreparedInstCount)
           drawn == IF regen /\ mInstCount > from THEN mInstCount - from ELSE 0
           newInst == needInst /\ AllocatesInstBuf("instBuf" \in handles)
           storeSize == IF newInst THEN InstBufBytes ELSE instDataSize
           made == (IF needBufs THEN StaticBuffers \cup {"bufMem"} ELSE {})
                   \cup (IF newInst THEN InstanceObjects ELSE {})
       IN \E r \in DeviceResults, ub \in {"carries on", "crashes"} :
             IF needBufs /\ r # "VK_SUCCESS" THEN Abort("qFatal:ensureBuffers")
             ELSE IF needBufs /\ descSet # "valid" /\ ub = "crashes"
                  THEN Abort("crash:ensureBuffers")
             ELSE IF needInst /\ AssertInstCount(mInstCount)
                  THEN Abort("Q_ASSERT:ensureInstanceBuffer")
             ELSE IF needInst /\ r # "VK_SUCCESS" THEN Abort("qFatal:ensureInstanceBuffer")
             ELSE IF /\ needInst
                     /\ Upload(mInstCount, storeSize).copied
                           > Upload(mInstCount, storeSize).mapped
                     /\ ub = "crashes"
                  THEN Abort("crash:ensureInstanceBuffer")
             ELSE /\ mGuiMutex' = t
                  /\ task' = [task EXCEPT ![t] = "wait"]
                  /\ handles' = handles \cup made
                  /\ objCount' = Created(made)
                  /\ earlyUse' = earlyUse \cup
                                    (IF needBufs THEN UsedEarly({"descriptorSet"}) ELSE {})
                  /\ mPreparedInstCount' = mInstCount
                  /\ mInstData' = IF regen
                                  THEN WriteRecords(mInstData, from, mInstCount, rng + 1)
                                  ELSE mInstData
                  /\ rng' = rng + drawn
                  /\ uploads' = IF needInst THEN uploads + 1 ELSE uploads
                  /\ instDataSize' = storeSize
                  /\ instBufSize' = IF newInst THEN InstBufBytes ELSE instBufSize
                  /\ upload' = IF needInst THEN Upload(mInstCount, storeSize)
                                ELSE upload
                  /\ devInstData' = IF needInst THEN mInstData' ELSE devInstData
                  /\ buildUploaded' = needInst
                  /\ UNCHANGED drawCount
                  /\ memPlan' = IF needBufs
                                 THEN MemLayout(mItemMaterial, uniformAlignment, memAlignment)
                                 ELSE memPlan
                  /\ bufSteps' = IF needBufs THEN EnsureBuffersSteps ELSE bufSteps
                  /\ mItemMaterial' =
                        IF needBufs
                        THEN [mItemMaterial EXCEPT !.uniMemStartOffset =
                                 memPlan'.offset["uniBuf"]]
                        ELSE mItemMaterial
                  /\ UNCHANGED memAlignment
                  /\ uniBufSize' = IF needBufs THEN UniBufSize(mItemMaterial) ELSE uniBufSize
                  /\ vertData' = IF needBufs THEN "uploaded" ELSE vertData
                  /\ slotVp' = IF needBufs THEN [j \in Slots |-> "none"] ELSE slotVp
                  /\ slotModel' = IF needBufs THEN [j \in Slots |-> NoModel] ELSE slotModel
                  /\ UNCHANGED <<uniformAlignment, currentFrame, frameUniOffset, uniWrites,
                                 destroyed>>
                  /\ UNCHANGED op
                  /\ UNCHANGED <<shVars, win, aborted, descSet, pipePc, badPipes,
                                 mFramePending, watched, finishedQueued, notifs, frames,
                                 mAnimating, mUseLogo, mInstCount, mRotation, mVpDirty,
                                 mCam, adds, camOps, camArg>>

\* Renderer::buildFrame from mPipelinesFuture.waitForFinished() to its end: the
\* render pass with the floor draw and the item draw is recorded
\* (buildDrawCallsForItems: mRotation advances by 0.5 when animating; when
\* animating or dirty the slot's uniforms are mapped and rewritten and the
\* dirty count goes down by one), the lock is released and the future
\* finishes, which posts Finished to the watcher that watches it.
BuildFrameRecord(t) ==
    /\ ~aborted
    /\ UNCHANGED alignCall
    /\ UNCHANGED faults
    /\ task[t] = "wait"
    /\ PipelinesFinished
    /\ \E r \in DeviceResults :
          IF (mAnimating \/ mVpDirty > 0) /\ r # "VK_SUCCESS" THEN Abort("qFatal:buildFrame")
          ELSE /\ mRotation' = IF mAnimating THEN mRotation + 1 ELSE mRotation
               /\ mVpDirty' = IF mVpDirty > 0 THEN mVpDirty - 1 ELSE mVpDirty
               /\ earlyUse' = earlyUse \cup
                      UsedEarly({"itemPipeline", "itemPipelineLayout", "descriptorSet",
                                 "floorPipeline", "floorPipelineLayout"})
               /\ mGuiMutex' = 0
               /\ task' = [task EXCEPT ![t] = "idle"]
               /\ finishedQueued' = IF watched = t THEN TRUE ELSE finishedQueued
               /\ frameUniOffset' = FrameUniOffset(currentFrame, mItemMaterial)
               /\ uniWrites' = IF mAnimating \/ mVpDirty > 0
                                THEN BuildWrites(currentFrame, mItemMaterial) ELSE {}
               /\ slotVp' = [j \in Slots |->
                                SlotVpAfter(uniWrites', j, mItemMaterial, slotVp[j])]
               /\ vertData' = IF Touches(uniWrites', VertexRange(mItemMaterial))
                               THEN "clobbered" ELSE vertData
               /\ slotModel' = [j \in Slots |->
                                   SlotModelAfter(uniWrites', j, mItemMaterial, slotModel[j],
                                                  ModelMatrix(mUseLogo, mRotation'))]
               /\ UNCHANGED <<uniformAlignment, mItemMaterial, uniBufSize, currentFrame,
                              destroyed>>
               /\ drawCount' = DrawInstanceCount(mInstCount, mPreparedInstCount)
               /\ UNCHANGED <<memAlignment, memPlan, bufSteps, instDataSize, instBufSize,
                              upload, devInstData, buildUploaded>>
               /\ UNCHANGED op
               /\ UNCHANGED <<shVars, win, aborted, handles, objCount, descSet, pipePc,
                              badPipes, mFramePending, watched, notifs, frames,
                              mAnimating, mUseLogo, mInstCount, mPreparedInstCount, mCam,
                              adds, camOps, instVars, camArg>>

\* --- the control layer's mutators (GUI thread)

\* Renderer::addNew without the lock.
AddNew_NoLock ==
    /\ ~aborted
    /\ UNCHANGED <<alignCall, uniVars, destroyed, bufVars>>
    /\ UNCHANGED faults
    /\ mInstCount' = Min(mInstCount + InstanceStep, MAX_INSTANCES)
    /\ adds' = adds + 1
    /\ op' = "addNew"
    /\ UNCHANGED <<shVars, lifeVars, frameVars, mAnimating, mUseLogo, mPreparedInstCount,
                   mRotation, mVpDirty, mCam, camOps, instVars, camArg>>

NewInstCount_NoCap(c) == c + InstanceStep

\* qMin(mInstCount + 16, MAX_INSTANCES)
NewInstCount(c) == Min(c + InstanceStep, MAX_INSTANCES)

\* Renderer::addNew, under QMutexLocker(&mGuiMutex).
AddNew ==
    /\ ~aborted
    /\ UNCHANGED <<alignCall, uniVars, destroyed, bufVars>>
    /\ UNCHANGED faults
    /\ mGuiMutex = 0
    /\ mInstCount' = NewInstCount(mInstCount)
    /\ adds' = adds + 1
    /\ op' = "addNew"
    /\ UNCHANGED <<shVars, lifeVars, frameVars, mAnimating, mUseLogo, mPreparedInstCount,
                   mRotation, mVpDirty, mCam, camOps, instVars, camArg>>

\* Renderer::yaw / pitch / walk / strafe, each under QMutexLocker(&mGuiMutex):
\* the camera command, then markViewProjDirty().
CameraCommand(name, arg, cam) ==
    /\ ~aborted
    /\ UNCHANGED <<alignCall, uniformAlignment, mItemMaterial, uniBufSize, currentFrame,
                   frameUniOffset, uniWrites, vertData, destroyed, bufVars>>
    /\ slotVp' = Outdated(slotVp)
    /\ UNCHANGED faults
    /\ mGuiMutex = 0
    /\ mCam' = cam
    /\ mVpDirty' = markViewProjDirty
    /\ camOps' = camOps + 1
    /\ camArg' = arg
    /\ op' = name
    /\ UNCHANGED <<shVars, lifeVars, frameVars, mAnimating, mUseLogo, mInstCount,
                   mPreparedInstCount, mRotation, adds, instVars>>

YawBy(degrees) == CameraCommand("yaw", degrees, CameraYaw(mCam, degrees))
PitchBy(degrees) == CameraCommand("pitch", degrees, CameraPitch(mCam, degrees))
WalkBy(amount) == CameraCommand("walk", amount, CameraWalk(mCam, amount))
StrafeBy(amount) == CameraCommand("strafe", amount, CameraStrafe(mCam, amount))

\* The commands issued while frames are rendered.
Yaw == camOps < MaxCamOps /\ \E d \in CamDegrees : YawBy(d)
Pitch == camOps < MaxCamOps /\ \E d \in CamDegrees : PitchBy(d)
Walk == camOps < MaxCamOps /\ \E a \in CamAmounts : WalkBy(a)
Strafe == camOps < MaxCamOps /\ \E a \in CamAmounts : StrafeBy(a)

\* Renderer::setUseLogo, under QMutexLocker(&mGuiMutex).
SetUseLogo ==
    /\ ~aborted
    /\ UNCHANGED <<alignCall, uniVars, destroyed, bufVars>>
    /\ UNCHANGED faults
    /\ mGuiMutex = 0
    /\ \E b \in BOOLEAN : mUseLogo' = b
    /\ op' = "setUseLogo"
    /\ UNCHANGED <<shVars, lifeVars, frameVars, mAnimating, mInstCount, mPreparedInstCount,
                   mRotation, mVpDirty, mCam, adds, camOps, instVars, camArg>>

\* VulkanWindow::togglePaused: mRenderer->setAnimating(!mRenderer->animating()).
\* Renderer::animating and Renderer::setAnimating take no lock.
TogglePaused ==
    /\ ~aborted
    /\ UNCHANGED <<alignCall, uniVars, destroyed, bufVars>>
    /\ UNCHANGED faults
    /\ mAnimating' = ~mAnimating
    /\ op' = "setAnimating"
    /\ UNCHANGED <<shVars, lifeVars, frameVars, mUseLogo, mInstCount, mPreparedInstCount,
                   mRotation, mVpDirty, mCam, adds, camOps, instVars, camArg>>

\* ------------------------------------------------------------ specifications

\* The state after Renderer(w, initialCount), with f faults to come, on a
\* device whose minUniformBufferOffsetAlignment is a and that requires the
\* alignment va of a vertex buffer's memory.  The sizes and the start
\* offset in mItemMaterial have no initializer; they are written (initResources,
\* ensureBuffers) before they are read.
InitMemory(f, initialCount, a, va) ==
    /\ memAlignment = va
    /\ memPlan = NoLayout
    /\ bufSteps = <<>>
    /\ instDataSize = 0
    /\ instBufSize = 0
    /\ upload = [mapped |-> 0, copied |-> 0]
    /\ slotModel = [j \in Slots |-> NoModel]
    /\ devInstData = {}
    /\ buildUploaded = FALSE
    /\ drawCount = 0
    /\ sh = [h \in Handles |-> ShaderInit]
    /\ shInFlight = [h \in Handles |-> 0]
    /\ liveMods = [h \in Handles |-> {}]
    /\ shRets = [h \in Handles |-> {}]
    /\ shRuns = [h \in Handles |-> 0]
    /\ loads = [h \in Handles |-> 0]
    /\ win = "none"
    /\ aborted = FALSE
    /\ faults = f
    /\ handles = {}
    /\ objCount = [o \in Objects |-> 0]
    /\ descSet = "uninit"
    /\ pipePc = 0
    /\ badPipes = {}
    /\ earlyUse = {}
    /\ mFramePending = FALSE
    /\ task = [t \in 1..MaxTasks |-> "idle"]
    /\ watched = 0
    /\ finishedQueued = FALSE
    /\ mGuiMutex = 0
    /\ notifs = 0
    /\ frames = 0
    /\ mAnimating = FALSE
    /\ mUseLogo = FALSE
    /\ mInstCount = initialCount
    /\ mPreparedInstCount = 0
    /\ mInstData = {}
    /\ rng = 0
    /\ uploads = 0
    /\ camArg = 0
    /\ alignCall = [v |-> 0, byteAlign |-> 1, result |-> 0]
    /\ uniformAlignment = a
    /\ mItemMaterial = [vertUniSize |-> 0, fragUniSize |-> 0, uniMemStartOffset |-> 0]
    /\ uniBufSize = 0
    /\ currentFrame = 0
    /\ frameUniOffset = 0
    /\ uniWrites = {}
    /\ slotVp = [j \in Slots |-> "none"]
    /\ vertData = "none"
    /\ destroyed = <<>>
    /\ mRotation = 0
    /\ mVpDirty = 0
    /\ mCam = CameraInit
    /\ adds = 0
    /\ camOps = 0
    /\ op = "init"

\* The same on a device that requires MemAlignment of a vertex buffer.
InitDevice(f, initialCount, a) == InitMemory(f, initialCount, a, MemAlignment)

\* The state after Renderer(w, initialCount), with f faults to come.
InitRenderer(f, initialCount) == InitDevice(f, initialCount, UniformAlignment)

\* The state after VulkanWindow::createRenderer: new Renderer(this, 128).
InitWith(f) == InitRenderer(f, InitialCount)

\* The state after construction, in an environment that may produce faults.
Init == InitWith(MaxFaults)

\* The renderer under its surface owner and its thread-pool tasks.
Next ==
    \/ InitResources
    \/ InitSwapChainResources
    \/ StartNextFrame
    \/ FrameFinished
    \/ ReleaseSwapChainResources
    \/ ReleaseResources
    \/ \E h \in Handles : ShaderTask(h)
    \/ PipelineCreate
    \/ PipelineAllocSet
    \/ PipelineShaderData
    \/ PipelineCreatePipeline
    \/ \E t \in 1..MaxTasks : BuildFrameEnsure(t)
    \/ \E t \in 1..MaxTasks : BuildFrameRecord(t)

Spec == Init /\ [][Next]_vars

\* A step of a thread-pool task or the delivery of the posted finished event.
Progress ==
    \/ \E h \in Handles : ShaderTask(h)
    \/ PipelineCreate
    \/ PipelineAllocSet
    \/ PipelineShaderData
    \/ PipelineCreatePipeline
    \/ \E t \in 1..MaxTasks : BuildFrameEnsure(t)
    \/ \E t \in 1..MaxTasks : BuildFrameRecord(t)
    \/ FrameFinished

\* What the scheduling guarantees: while a task can run or an event is posted,
\* the thread pool or the GUI thread's event loop takes a step.  The surface
\* owner's hooks are under no obligation to be called.
Fairness == WF_vars(Progress)

SpecLive == Spec /\ Fairness

\* The state after construction, in an environment without faults.
InitUi == InitWith(0)

\* The renderer from initResources on, rendering frames while the control layer
\* issues its commands.
NextUi ==
    \/ InitResources
    \/ InitSwapChainResources
    \/ StartNextFrame
    \/ FrameFinished
    \/ \E h \in Handles : ShaderTask(h)
    \/ PipelineCreate
    \/ PipelineAllocSet
    \/ PipelineShaderData
    \/ PipelineCreatePipeline
    \/ \E t \in 1..MaxTasks : BuildFrameEnsure(t)
    \/ \E t \in 1..MaxTasks : BuildFrameRecord(t)
    \/ (adds < MaxAdds /\ AddNew)
    \/ Yaw
    \/ Pitch
    \/ Walk
    \/ Strafe
    \/ SetUseLogo
    \/ TogglePaused

SpecUi == InitUi /\ [][NextUi]_vars

\* Initial counts for the instance store: the window's own, and one a single
\* add-instances call below the maximum.
InstCounts == {InitialCount, MAX_INSTANCES - InstanceStep}

\* Initial counts handed to the constructor, one of them above the maximum.
AnyCounts == {InitialCount, MAX_INSTANCES + InstanceStep}

InitInst == \E c \in InstCounts : InitRenderer(0, c)

InitAny == \E c \in AnyCounts : InitRenderer(0, c)

\* The renderer over init ... release cycles, rendering frames while
\* add-instances calls are issued.
NextInst ==
    \/ InitResources
    \/ InitSwapChainResources
    \/ StartNextFrame
    \/ FrameFinished
    \/ ReleaseSwapChainResources
    \/ ReleaseResources
    \/ \E h \in Handles : ShaderTask(h)
    \/ PipelineCreate
    \/ PipelineAllocSet
    \/ PipelineShaderData
    \/ PipelineCreatePipeline
    \/ \E t \in 1..MaxTasks : BuildFrameEnsure(t)
    \/ \E t \in 1..MaxTasks : BuildFrameRecord(t)
    \/ (adds < MaxGrow /\ AddNew)

SpecInst == InitInst /\ [][NextInst]_vars

SpecAny == InitAny /\ [][NextInst]_vars

\* Arguments of yaw and pitch of magnitude at most 360, and of walk and strafe.
TurnDegrees == {-360, -90, 30, 90, 360}
MoveAmounts == {-1, 1}

\* Arguments of yaw and pitch around a full turn.
WrapDegrees == {-370, -360, 360, 370}

\* The camera under any sequence of commands with turns of at most 360 degrees.
NextCam ==
    /\ camOps < MaxCamSeq
    /\ \/ \E d \in TurnDegrees : YawBy(d)
       \/ \E d \in TurnDegrees : PitchBy(d)
       \/ \E a \in MoveAmounts : WalkBy(a)
       \/ \E a \in MoveAmounts : StrafeBy(a)

SpecCam == Init /\ [][NextCam]_vars

\* The camera under turns of a full turn and more.
NextWrap ==
    /\ camOps < MaxCamSeq
    /\ \/ \E d \in WrapDegrees : YawBy(d)
       \/ \E d \in WrapDegrees : PitchBy(d)

SpecWrap == Init /\ [][NextWrap]_vars

InitSlots == \E a \in UniformAlignments : InitDevice(0, InitialCount, a)

\* The renderer rendering frames into its frame slots, with resizes, while the
\* camera is moved and the animation is paused and resumed.
NextSlots ==
    \/ InitResources
    \/ InitSwapChainResources
    \/ (frames < MaxSlotFrames /\ StartFrame)
    \/ FrameFinished
    \/ ReleaseSwapChainResources
    \/ \E h \in Handles : ShaderTask(h)
    \/ PipelineCreate
    \/ PipelineAllocSet
    \/ PipelineShaderData
    \/ PipelineCreatePipeline
    \/ \E t \in 1..MaxTasks : BuildFrameEnsure(t)
    \/ \E t \in 1..MaxTasks : BuildFrameRecord(t)
    \/ Yaw
    \/ Pitch
    \/ Walk
    \/ Strafe
    \/ TogglePaused

SpecSlots == InitSlots /\ [][NextSlots]_vars

InitMem == \E a \in UniformAlignments, va \in MemAlignments :
              InitMemory(0, InitialCount, a, va)

\* The renderer on devices that differ in the memory they require.
SpecMem == InitMem /\ [][Next]_vars

\* The renderer rendering frames into its frame slots while the mesh is
\* switched and the animation is paused and resumed.
NextDraw ==
    \/ InitResources
    \/ InitSwapChainResources
    \/ (frames < MaxSlotFrames /\ StartFrame)
    \/ FrameFinished
    \/ \E h \in Handles : ShaderTask(h)
    \/ PipelineCreate
    \/ PipelineAllocSet
    \/ PipelineShaderData
    \/ PipelineCreatePipeline
    \/ \E t \in 1..MaxTasks : BuildFrameEnsure(t)
    \/ \E t \in 1..MaxTasks : BuildFrameRecord(t)
    \/ SetUseLogo
    \/ TogglePaused

SpecDraw == InitUi /\ [][NextDraw]_vars

\* The renderer under its surface owner, its thread-pool tasks and a mutator
\* of the control layer, which takes the lock the frame build holds.
NextBusy ==
    \/ Next
    \/ (adds < MaxAdds /\ AddNew)

\* The same in an environment where no load and no device call fails, under
\* the scheduling of the thread pool and the event loop.
SpecBusy == InitUi /\ [][NextBusy]_vars /\ Fairness

\* aligned() under any caller.
NextAlign == AlignedCall

SpecAlign == Init /\ [][NextAlign]_vars

\* The requested instance count under any number of add-instances calls.
NextCount == adds < MaxAddCalls /\ AddNew

SpecCount == Init /\ [][NextCount]_vars

\* One shader handle driven by arbitrary callers of its public interface.
NextShader ==
    \/ ShaderLoad("itemVs")
    \/ ShaderTask("itemVs")
    \/ ShaderDataCall("itemVs")
    \/ ShaderIsValid("itemVs")
    \/ ShaderReset("itemVs")
    \/ ShaderDestroy("itemVs")

SpecShader == Init /\ [][NextShader]_vars

\* ------------------------------------------------------------------ claims

\* C1: at most one frame-build task is in flight; the flag is set whenever a
\* task is in flight, and a start-next-frame issued while the flag is set ends
\* the process at the assertion without dispatching a second task.
C1_OneBuildInFlight ==
    /\ Cardinality(InFlight) <= 1
    /\ InFlight # {} => mFramePending
    /\ op = "Q_ASSERT:startNextFrame" => aborted /\ mFramePending

\* C1 witness: start-next-frame was called while a frame was pending and its
\* build task in flight; the process ended at the assertion.
C1_Witness ==
    /\ op = "Q_ASSERT:startNextFrame"
    /\ aborted
    /\ Cardinality(InFlight) = 1

\* C2: since the last accepted start-next-frame the surface owner has been
\* notified at most once; the flag is clear exactly when that notification has
\* been made; and it has been made only after the watched build task returned.
C2_NotifiedAtMostOnce ==
    /\ notifs <= 1
    /\ watched # 0 => (mFramePending <=> notifs = 0)
    /\ notifs = 1 => task[watched] = "idle"

\* C2: the above always holds, and a pending frame is notified in the end
\* unless the process ends first.
C2_FrameReadyOnce ==
    /\ []C2_NotifiedAtMostOnce
    /\ (mFramePending /\ ~aborted) ~> (~mFramePending \/ aborted)

\* C2 witness: two frames have been started and the second one has been
\* notified by the delivery of its finished event.
C2_Witness ==
    /\ frames = 2
    /\ notifs = 1
    /\ ~mFramePending
    /\ op = "finished"
    /\ win = "swapchain"

\* C3: a step of swapchain-release ends with no build task in flight and the
\* flag clear, and it notifies the surface owner exactly when the flag was set
\* on entry.
C3_ReleaseDrains ==
    [][(win = "swapchain" /\ win' = "device") =>
          /\ InFlight' = {}
          /\ ~mFramePending'
          /\ notifs' = notifs + (IF mFramePending THEN 1 ELSE 0)]_vars

\* C3 witness: swapchain-release has returned after notifying the surface
\* owner itself, the build's finished event being still undelivered.
C3_Witness ==
    /\ op = "releaseSwapChainResources"
    /\ notifs = 1
    /\ finishedQueued
    /\ InFlight = {}

\* The mutators of the control layer, by the name they leave in op.
MutatorOps == {"addNew", "yaw", "pitch", "walk", "strafe", "setUseLogo", "setAnimating"}
SharedState == <<mCam, mAnimating, mUseLogo, mInstCount>>

\* C4: a mutator changes the state it shares with the frame build only while
\* no frame build holds the lock, and a frame build that has begun its body
\* holds the lock.
C4_MutatorsUnderLock ==
    [][/\ (op' \in MutatorOps /\ SharedState' # SharedState) => mGuiMutex = 0
       /\ \A t \in 1..MaxTasks : task'[t] = "wait" => mGuiMutex' = t]_vars

\* C5: the frame build has used no product of the pipeline task before that
\* task completed.
C5_NoEarlyUse == earlyUse = {}

\* C6: when releaseResources has returned, every handle is null, every object
\* created has been destroyed exactly once, no shader module exists and the four
\* shader handles are unstarted.
C6_ReleasedClean ==
    op = "releaseResources" =>
        /\ handles = {}
        /\ \A o \in Objects : objCount[o] = 0
        /\ \A h \in Handles : liveMods[h] = {}
        /\ \A h \in Handles : ~sh[h].mMaybeRunning /\ ~IsValidData(sh[h].mData)

\* C7: after one load(), data() returns only once the background load has
\* completed, every data() call returns the same module handle (the task's
\* result), and the load task body runs at most once per load(), whatever
\* number of data()/isValid() calls are made and also when the load failed.
C7_DataStable ==
    \A h \in Handles :
        /\ Cardinality(shRets[h]) <= 1
        /\ shRuns[h] <= 1
        /\ (sh[h].mMaybeRunning /\ shRets[h] # {}) =>
               /\ sh[h].fut = "done"
               /\ shRuns[h] = 1
               /\ shRets[h] = {sh[h].res}

\* C7 witness: a failed load whose (null) result a data() call has returned.
C7_Witness ==
    /\ sh["itemVs"].mMaybeRunning
    /\ sh["itemVs"].fut = "done"
    /\ shRets["itemVs"] = {VK_NULL_HANDLE}
    /\ op = "data"

\* C8: for each shader handle at most one load task is in flight.
C8_OneLoadInFlight == \A h \in Handles : shInFlight[h] <= 1

\* C8 witness: a second load() on a handle whose first load was never observed
\* by data(): the new task is in flight and the first one's module still exists.
C8_Witness ==
    /\ loads["itemVs"] = 2
    /\ shInFlight["itemVs"] = 1
    /\ op = "load"
    /\ liveMods["itemVs"] # {}

\* C9: no pipeline exists that was created with the null module of a failed
\* load for one of its stages.
C9_NoPipelineFromNullModule == badPipes = {}

\* C10: after n add-instances calls the requested count is
\* min(128 + 16 * n, 16384); after four calls it is 192.
C10_AddNewCount ==
    /\ mInstCount = Min(InitialCount + InstanceStep * adds, MAX_INSTANCES)
    /\ adds = 4 => mInstCount = 192

\* C10 witness: the cap has been reached and a further call has left the count
\* at the maximum.
C10_Witness ==
    /\ op = "addNew"
    /\ mInstCount = MAX_INSTANCES
    /\ InitialCount + InstanceStep * adds > MAX_INSTANCES

\* A step in which a frame build executes ensureInstanceBuffer: it returns
\* from it, or the process ends in it.
EnsureStep ==
    /\ ~aborted
    /\ \E t \in 1..MaxTasks :
          /\ task[t] = "lock"
          /\ \/ task'[t] = "wait"
             \/ aborted' /\ op' \in {"Q_ASSERT:ensureInstanceBuffer",
                                     "qFatal:ensureInstanceBuffer"}

\* C11 as stated: an ensure with a requested count above the maximum prepares
\* and uploads exactly 16384 records and the process continues.
C11_ClampsToMaximum ==
    [][(EnsureStep /\ mInstCount > MAX_INSTANCES) =>
          /\ ~aborted'
          /\ mPreparedInstCount' = MAX_INSTANCES
          /\ Generated(mInstData') = 0 .. (MAX_INSTANCES - 1)
          /\ uploads' = uploads + 1]_vars

\* C11 amended: an ensure with a requested count above the maximum ends the
\* process at Q_ASSERT(mInstCount <= MAX_INSTANCES); no record is generated,
\* nothing is uploaded, the prepared count is unchanged and no instance buffer
\* is created.
C11_AssertsAboveMaximum ==
    [][(EnsureStep /\ mInstCount > MAX_INSTANCES) =>
          /\ aborted'
          /\ op' = "Q_ASSERT:ensureInstanceBuffer"
          /\ mPreparedInstCount' = mPreparedInstCount
          /\ mInstData' = mInstData
          /\ rng' = rng
          /\ uploads' = uploads
          /\ "instBuf" \notin handles']_vars

\* C11 witness: a renderer constructed with a count above the maximum has
\* started its first frame build and the process has ended at the assertion.
C11_Witness ==
    /\ mInstCount > MAX_INSTANCES
    /\ aborted
    /\ op = "Q_ASSERT:ensureInstanceBuffer"
    /\ mPreparedInstCount = 0

\* C12: the requested instance count never exceeds the maximum, and no step
\* decreases it.
C12_CountBoundedMonotone ==
    [][mInstCount' <= MAX_INSTANCES /\ mInstCount' >= mInstCount]_vars

\* C12 witness: an add-instances call at the maximum, made after a frame build
\* has prepared records, has left the count at the maximum.
C12_Witness ==
    /\ mInstCount = MAX_INSTANCES
    /\ adds = 2
    /\ op = "addNew"
    /\ mPreparedInstCount > 0

\* C13: an ensure with the requested count equal to the prepared count and the
\* instance buffer existing changes nothing: the store and the prepared count
\* are as before, no record is drawn, nothing is uploaded and no instance
\* buffer or memory is created.
C13_EnsureIdempotent ==
    [][(EnsureStep /\ mInstCount = mPreparedInstCount /\ "instBuf" \in handles) =>
          /\ mInstData' = mInstData
          /\ mPreparedInstCount' = mPreparedInstCount
          /\ rng' = rng
          /\ uploads' = uploads
          /\ \A o \in InstanceObjects : objCount'[o] = objCount[o]]_vars

\* C13 witness: the second frame's build has run its ensure with the count of
\* the first frame and the buffer in place; there has been one upload.
C13_Witness ==
    /\ frames = 2
    /\ \E t \in 1..MaxTasks : task[t] = "wait"
    /\ "instBuf" \in handles
    /\ uploads = 1
    /\ rng = mPreparedInstCount
    /\ adds = 0

\* Every run of the store `old` lies, with the same draw numbers, in a run of
\* the store `new`: each record of `old` is in `new` at its index.
Retains(new, old) ==
    \A r \in old : \E q \in new :
        /\ q.from <= r.from
        /\ r.to <= q.to
        /\ q.first + (r.from - q.from) = r.first

\* C14: a generated record is never changed by a later step (a release and a
\* new init included), the prepared count never decreases, and the records of
\* the indices below the prepared count are those of the first draws, one draw
\* per index: no index was generated twice.
C14_RecordsRetained ==
    [][/\ Retains(mInstData', mInstData)
       /\ mPreparedInstCount' >= mPreparedInstCount
       /\ rng' = mPreparedInstCount'
       /\ mInstData' = IF mPreparedInstCount' = 0 THEN {}
                       ELSE {[from |-> 0, to |-> mPreparedInstCount', first |-> 1]}]_vars

\* C14 witness: after a release and a new init the instance buffer exists
\* again and the store was uploaded a second time with the count unchanged,
\* without a record drawn anew.
C14_Witness ==
    /\ uploads = 2
    /\ adds = 0
    /\ "instBuf" \in handles
    /\ mPreparedInstCount = InitialCount
    /\ rng = InitialCount
    /\ \A i \in 0 .. (mPreparedInstCount - 1) : RecordAt(mInstData, i) = i + 1

\* C15 as stated: for every size s and power-of-two alignment a the result of
\* aligned(s, a) is a multiple of a, at least s and less than s + a.
C15_AlignedAllSizes ==
    /\ alignCall.result % alignCall.byteAlign = 0
    /\ alignCall.result >= alignCall.v
    /\ alignCall.result < alignCall.v + alignCall.byteAlign

\* C15 amended: the result is a multiple of a for every s; it is at least s
\* and less than s + a when s + a - 1 does not exceed the largest VkDeviceSize.
C15_AlignedNoWrap ==
    /\ alignCall.result % alignCall.byteAlign = 0
    /\ alignCall.v + alignCall.byteAlign - 1 < SizeLimit =>
          /\ alignCall.result >= alignCall.v
          /\ alignCall.result < alignCall.v + alignCall.byteAlign

\* C15 witness: a size that is not a multiple of the alignment was rounded up
\* to the next multiple.
C15_Witness ==
    /\ alignCall.byteAlign = 16
    /\ alignCall.v = 37
    /\ alignCall.result = 48

\* C16: yaw(d) sets the yaw angle to old + d, less 360 if that sum is above
\* 360, then plus 360 if the result is below -360, and nothing more; pitch(d)
\* does the same to the pitch angle; yaw(370) from 0 gives 10 and yaw(-370)
\* from 0 gives -10.
C16_SingleCorrection ==
    [][/\ (op' = "yaw" /\ camOps' = camOps + 1) =>
             LET sum == mCam.mYaw + camArg'
                 down == IF sum > 360 THEN sum - 360 ELSE sum
             IN /\ mCam'.mYaw = (IF down < -360 THEN down + 360 ELSE down)
                /\ (mCam.mYaw = 0 /\ camArg' = 370) => mCam'.mYaw = 10
                /\ (mCam.mYaw = 0 /\ camArg' = -370) => mCam'.mYaw = -10
       /\ (op' = "pitch" /\ camOps' = camOps + 1) =>
             LET sum == mCam.mPitch + camArg'
                 down == IF sum > 360 THEN sum - 360 ELSE sum
             IN mCam'.mPitch = (IF down < -360 THEN down + 360 ELSE down)]_vars

\* C16 witness: yaw(370) at yaw 360 has left the angle at 370, one correction
\* having been made.
C16_Witness ==
    /\ op = "yaw"
    /\ camArg = 370
    /\ mCam.mYaw = 370

\* C17 as stated: the stored yaw and pitch are greater than -360 and at most
\* 360.
C17_HalfOpenInterval ==
    /\ -360 < mCam.mYaw /\ mCam.mYaw <= 360
    /\ -360 < mCam.mPitch /\ mCam.mPitch <= 360

\* C17 amended: the stored yaw and pitch are at least -360 and at most 360.
C17_ClosedInterval ==
    /\ -360 <= mCam.mYaw /\ mCam.mYaw <= 360
    /\ -360 <= mCam.mPitch /\ mCam.mPitch <= 360

\* C17 witness: yaw(-360) has brought the angle to -360, where it stays.
C17_Witness ==
    /\ op = "yaw"
    /\ camArg = -360
    /\ mCam.mYaw = -360

\* C18 as stated: after yaw(90) from the identity orientation forward is
\* (-1, 0, 0) and right is (0, 0, -1).
C18_QuarterTurnLeft ==
    (camOps = 1 /\ op = "yaw" /\ camArg = 90) =>
        /\ mCam.mForward = <<-Scale, 0, 0>>
        /\ mCam.mRight = <<0, 0, -Scale>>

\* C18 amended: after yaw(90) from the identity orientation forward is
\* (1, 0, 0) and right is (0, 0, 1).
C18_QuarterTurnRight ==
    (camOps = 1 /\ op = "yaw" /\ camArg = 90) =>
        /\ mCam.mForward = <<Scale, 0, 0>>
        /\ mCam.mRight = <<0, 0, Scale>>

\* C18 witness: yaw(90) was the first command.
C18_Witness ==
    /\ camOps = 1
    /\ op = "yaw"
    /\ camArg = 90
    /\ mCam.mYaw = 90
    /\ mCam.mForward = <<Scale, 0, 0>>

\* C19: walk and strafe change nothing of the camera but the x and z
\* coordinates of its position.
C19_WalkStrafeConfined ==
    [][(op' \in {"walk", "strafe"} /\ camOps' = camOps + 1) =>
          /\ mCam'.mPos[2] = mCam.mPos[2]
          /\ [mCam' EXCEPT !.mPos = mCam.mPos] = mCam]_vars

\* C19 witness: a walk with the camera pitched, the forward vector having a
\* vertical component, has moved the position.
C19_Witness ==
    /\ op = "walk"
    /\ mCam.mPitch = 30
    /\ mCam.mForward[2] # 0
    /\ mCam.mPos # CameraInit.mPos

\* C20: the stored forward, right and up vectors are the canonical vectors
\* under the current combined rotation (pitch matrix times yaw matrix).
C20_BasisCurrent ==
    LET rotMat == MatMul(mCam.mPitchMatrix, mCam.mYawMatrix) IN
    /\ mCam.mForward = VecMat(CanonForward, rotMat)
    /\ mCam.mRight = VecMat(CanonRight, rotMat)
    /\ mCam.mUp = VecMat(CanonUp, rotMat)

\* C21 as stated: the sizes given to aligned() are 176 bytes for the
\* vertex-stage block and 112 bytes for the fragment-stage block, and what a
\* frame build writes for each block lies within the first 176, respectively
\* 112, bytes of the block.
C21_FragmentBlock112 ==
    pipePc # 0 =>
        /\ mItemMaterial.vertUniSize = aligned(176, uniformAlignment)
        /\ mItemMaterial.fragUniSize = aligned(112, uniformAlignment)
        /\ LET p == mItemMaterial.uniMemStartOffset + frameUniOffset
               q == p + mItemMaterial.vertUniSize
           IN \A w \in uniWrites : \/ p <= w.from /\ w.to <= p + 176
                                   \/ q <= w.from /\ w.to <= q + 112

\* C21 amended: the sizes given to aligned() are 176 bytes for the
\* vertex-stage block and 116 bytes (6 * 16 + 12 + 2 * 4) for the
\* fragment-stage block, and what a frame build writes for each block lies
\* within the first 176, respectively 116, bytes of the block.
C21_FragmentBlock116 ==
    pipePc # 0 =>
        /\ mItemMaterial.vertUniSize = aligned(176, uniformAlignment)
        /\ mItemMaterial.fragUniSize = aligned(116, uniformAlignment)
        /\ LET p == mItemMaterial.uniMemStartOffset + frameUniOffset
               q == p + mItemMaterial.vertUniSize
           IN \A w \in uniWrites : \/ p <= w.from /\ w.to <= p + 176
                                   \/ q <= w.from /\ w.to <= q + 116

\* C21 witness: on a device with alignment 16 a frame build has written both
\* blocks; the last scalar of the fragment block ends at its byte 116 and the
\* last row of the vertex block at its byte 172.
C21_Witness ==
    /\ uniformAlignment = 16
    /\ mItemMaterial.fragUniSize = 128
    /\ LET p == mItemMaterial.uniMemStartOffset + frameUniOffset
           q == p + mItemMaterial.vertUniSize
       IN /\ [from |-> q + 112, to |-> q + 116] \in uniWrites
          /\ [from |-> p + 160, to |-> p + 172] \in uniWrites

\* A step in which a frame build returns: it has recorded its draw calls.
RecordStep == \E t \in 1..MaxTasks : task[t] = "wait" /\ task'[t] = "idle"

\* C28: swapchain-resize and every camera mutator set the dirty counter to
\* the concurrent-frame count; a frame build that finds the counter non-zero
\* rewrites the view-projection of the current slot and takes one off the
\* counter; and, animating or not, the slot a frame build has used holds the
\* current view-projection when the build returns.
C28_DirtySlotsRewritten ==
    [][/\ (win = "device" /\ win' = "swapchain") => mVpDirty' = ConcurrentFrameCount
       /\ camOps' = camOps + 1 => mVpDirty' = ConcurrentFrameCount
       /\ (RecordStep /\ mVpDirty > 0) =>
             /\ mVpDirty' = mVpDirty - 1
             /\ [from |-> mItemMaterial.uniMemStartOffset + frameUniOffset',
                 to |-> mItemMaterial.uniMemStartOffset + frameUniOffset' + 64]
                   \in uniWrites'
       /\ RecordStep => slotVp'[currentFrame] = "fresh"]_vars

\* C28 witness: with the animation off and the camera turned, every slot has
\* been rewritten, the counter is back at zero and a further frame has been
\* built without a write.
C28_Witness ==
    /\ ~mAnimating
    /\ camOps = 1
    /\ mVpDirty = 0
    /\ \A j \in Slots : slotVp[j] = "fresh"
    /\ uniWrites = {}
    /\ op = "finished"

\* C29: the two slot sizes are multiples of the device's alignment; the
\* uniform buffer is created with (vertex size + fragment size) x
\* concurrent-frame count bytes; for every index k below that count the
\* offset k x (vertex size + fragment size) is a multiple of the alignment,
\* its slot ends within the buffer and the slots of two indices do not
\* overlap; and the offset a frame build binds is one of these.
C29_SlotsAligned ==
    pipePc # 0 =>
        LET v == mItemMaterial.vertUniSize
            f == mItemMaterial.fragUniSize
        IN /\ v % uniformAlignment = 0
           /\ f % uniformAlignment = 0
           /\ v > 0 /\ f > 0
           /\ "uniBuf" \in handles => uniBufSize = (v + f) * ConcurrentFrameCount
           /\ \A k \in Slots :
                 /\ (k * (v + f)) % uniformAlignment = 0
                 /\ (k * (v + f) + v) % uniformAlignment = 0
                 /\ "uniBuf" \in handles => k * (v + f) + (v + f) <= uniBufSize
                 /\ \A j \in Slots \ {k} :
                       \/ j * (v + f) + (v + f) <= k * (v + f)
                       \/ k * (v + f) + (v + f) <= j * (v + f)
           /\ \E k \in Slots : frameUniOffset = k * (v + f)

\* C29 witness: on a device with alignment 256 a frame build has bound the
\* offset of the second slot.
C29_Witness ==
    /\ uniformAlignment = 256
    /\ "uniBuf" \in handles
    /\ frameUniOffset = 512
    /\ mItemMaterial.vertUniSize = 256
    /\ mItemMaterial.fragUniSize = 256

\* C30: every byte a frame build writes lies in the slot of the current-frame
\* index k, [start + k x slot size, start + (k + 1) x slot size); what the
\* other slots hold and the vertex data are as before.
C30_WritesCurrentSlotOnly ==
    [][RecordStep =>
          LET slot == mItemMaterial.vertUniSize + mItemMaterial.fragUniSize
              start == mItemMaterial.uniMemStartOffset
          IN /\ \A w \in uniWrites' : /\ start + currentFrame * slot <= w.from
                                      /\ w.to <= start + (currentFrame + 1) * slot
                                      /\ w.from < w.to
             /\ \A j \in Slots \ {currentFrame} : slotVp'[j] = slotVp[j]
             /\ vertData' = vertData]_vars

\* C30 witness: a frame build has written the second slot; the first slot
\* holds what an earlier build wrote and the vertex data is as uploaded.
C30_Witness ==
    /\ currentFrame = 1
    /\ uniWrites # {}
    /\ frameUniOffset > 0
    /\ slotVp[0] = "fresh"
    /\ slotVp[1] = "fresh"
    /\ vertData = "uploaded"

\* How the process ends at a checked device call that did not return
\* VK_SUCCESS, by the function the call is made in.
FailedCallOps == {"qFatal:createPipelines", "qFatal:ensureBuffers",
                  "qFatal:ensureInstanceBuffer", "qFatal:buildFrame"}

\* C22: when a checked device call returns a non-success status the process
\* ends at that call, and once the process has ended no step is taken: the
\* call is not made again and what follows it in the task or hook does not
\* run.
C22_DeviceFailureIsFatal ==
    /\ [](op \in FailedCallOps => aborted)
    /\ [][~aborted]_vars

\* C22 witness: vkMapMemory has failed in a frame build's
\* buildDrawCallsForItems; the process has ended with the build still inside
\* its body, the lock held, nothing written and no finished event posted.
C22_Witness ==
    /\ op = "qFatal:buildFrame"
    /\ aborted
    /\ \E t \in 1..MaxTasks : task[t] = "wait" /\ mGuiMutex = t
    /\ ~finishedQueued
    /\ uniWrites = {}

\* C23: when reset() has returned the handle is unstarted with an empty
\* cache; an unstarted handle is not valid, its data() does not wait and
\* returns the null module; and a module data() returns is the result of the
\* task of the load() last issued, never that of a load given up by reset().
C23_ResetDiscards ==
    \A h \in Handles :
        /\ op = "reset" => ~sh[h].mMaybeRunning /\ sh[h].mData = VK_NULL_HANDLE
        /\ ~sh[h].mMaybeRunning =>
              /\ ~IsValidData(sh[h].mData)
              /\ ~DataBlocks(sh[h])
              /\ AfterData(sh[h]).mData = VK_NULL_HANDLE
              /\ shRets[h] \subseteq {VK_NULL_HANDLE}
        /\ \A m \in shRets[h] \ {VK_NULL_HANDLE} :
              sh[h].mMaybeRunning /\ sh[h].fut = "done" /\ m = sh[h].res

\* C23 witness: reset() has returned on a handle whose load had produced a
\* module that no data() call had returned; the handle is unstarted and the
\* module still exists.
C23_Witness ==
    /\ op = "reset"
    /\ ~sh["itemVs"].mMaybeRunning
    /\ sh["itemVs"].fut = "done"
    /\ sh["itemVs"].res # VK_NULL_HANDLE
    /\ sh["itemVs"].res \in liveMods["itemVs"]
    /\ loads["itemVs"] = 1

\* A step that is a call of isValid() on the handle driven.
IsValidStep == op' \in {"isValid:true", "isValid:false"} /\ shRuns' = shRuns

\* C24 as stated: isValid() returns true exactly when the cached result, as
\* the call finds it, holds a non-null module; for a handle in flight, whose
\* result has not been observed, that is false.
C24_ReflectsCacheAsFound ==
    [][IsValidStep =>
          (op' = "isValid:true" <=> IsValidData(sh["itemVs"].mData))]_vars

\* C24 amended: isValid() resolves the handle as data() does and returns true
\* exactly when the cached result then holds a non-null module: for an
\* unstarted or resolved handle that is the cache as found; for a handle in
\* flight the call returns once the load has finished, with the load's result
\* cached.
C24_ReflectsCacheAfterFetch ==
    [][IsValidStep =>
          LET s == sh["itemVs"] IN
          /\ op' = "isValid:true" <=> IsValidData(sh'["itemVs"].mData)
          /\ IF s.mMaybeRunning /\ ~IsValidData(s.mData)
             THEN s.fut = "done" /\ sh'["itemVs"].mData = s.res
             ELSE sh'["itemVs"].mData = s.mData]_vars

\* C24 witness: isValid() has returned true on a handle whose load no data()
\* call had observed.
C24_Witness ==
    /\ op = "isValid:true"
    /\ shRets["itemVs"] = {}
    /\ loads["itemVs"] = 1
    /\ sh["itemVs"].mData = sh["itemVs"].res

\* A step in which releaseResources runs.
ReleaseStep == win = "device" /\ win' = "none"

\* What a release has destroyed.
Destroyed == {destroyed[i] : i \in 1..Len(destroyed)}

\* C25: releaseResources destroys objects only once the pipeline-creation
\* task has completed: what it destroys had been created, the task creates
\* nothing while no device resources are held, and no object is destroyed
\* more often than it was created.
C25_ReleaseAwaitsPipelines ==
    /\ [][/\ ReleaseStep =>
                /\ pipePc = PipeDone
                /\ pipePc' = pipePc
                /\ \A i \in 1..Len(destroyed') :
                      destroyed'[i] \in Objects => objCount[destroyed'[i]] >= 1
          /\ (\E o \in PipelineObjects : objCount'[o] # objCount[o]) =>
                \/ ReleaseStep
                \/ win' # "none" /\ PipeRunning]_vars
    /\ [](\A o \in Objects : objCount[o] >= 0)
    /\ [](win = "none" => ~PipeRunning)

\* C25 witness: a release that followed init with no frame in between has
\* returned; the pipeline task had run to its end and both pipelines were
\* destroyed.
C25_Witness ==
    /\ op = "releaseResources"
    /\ frames = 0
    /\ pipePc = PipeDone
    /\ {"itemPipeline", "floorPipeline", "pipelineCache"} \subseteq Destroyed
    /\ \A o \in PipelineObjects : objCount[o] = 0

\* The classes of objects in the order C26 gives them.
DestroyClass ==
    [o \in Objects \cup Handles |->
        CASE o \in {"descriptorSetLayout", "descriptorPool"} -> 1
          [] o \in {"itemPipeline", "floorPipeline"} -> 2
          [] o \in {"itemPipelineLayout", "floorPipelineLayout"} -> 3
          [] o = "pipelineCache" -> 4
          [] o \in {"blockVertexBuf", "logoVertexBuf", "floorVertexBuf", "uniBuf",
                    "instBuf"} -> 5
          [] o \in {"bufMem", "instBufMem"} -> 6
          [] OTHER -> 7]

\* C26 as stated: no object of a later class is destroyed before an object of
\* an earlier class (descriptor layout and pool, pipelines, pipeline layouts,
\* pipeline cache, buffers, memory blocks, shader modules).
C26_OrderByClass ==
    \A i, j \in 1..Len(destroyed) :
        i < j => DestroyClass[destroyed[i]] <= DestroyClass[destroyed[j]]

\* The place of each object in the order releaseResources destroys them.
DestroyRank ==
    [o \in Objects \cup Handles |->
        CASE o = "descriptorSetLayout" -> 1
          [] o = "descriptorPool" -> 2
          [] o = "itemPipeline" -> 3
          [] o = "itemPipelineLayout" -> 4
          [] o = "floorPipeline" -> 5
          [] o = "floorPipelineLayout" -> 6
          [] o = "pipelineCache" -> 7
          [] o = "blockVertexBuf" -> 8
          [] o = "logoVertexBuf" -> 9
          [] o = "floorVertexBuf" -> 10
          [] o = "uniBuf" -> 11
          [] o = "bufMem" -> 12
          [] o = "instBuf" -> 13
          [] o = "instBufMem" -> 14
          [] o = "itemVs" -> 15
          [] o = "itemFs" -> 16
          [] o = "floorVs" -> 17
          [] OTHER -> 18]

\* C26 amended: release destroys, of the objects that exist, the descriptor
\* set layout, the descriptor pool, the item pipeline, the item pipeline
\* layout, the floor pipeline, the floor pipeline layout, the pipeline cache,
\* the block, logo and floor vertex buffers, the uniform buffer, the memory
\* block of these four, the instance buffer, its memory block, and then the
\* shader modules, in this order, each once.
C26_OrderByMaterial ==
    [][ReleaseStep =>
          /\ \A i, j \in 1..Len(destroyed') :
                i < j => DestroyRank[destroyed'[i]] < DestroyRank[destroyed'[j]]
          /\ {destroyed'[i] : i \in 1..Len(destroyed')} =
                handles \cup {h \in Handles : IsValidData(AfterData(sh[h]).mData)}]_vars

\* C26 witness: a release has destroyed both pipelines with their layouts,
\* the static buffers with their memory, the instance buffer with its memory
\* and the four shader modules.
C26_Witness ==
    /\ op = "releaseResources"
    /\ Len(destroyed) = 18
    /\ destroyed[4] = "itemPipelineLayout"
    /\ destroyed[5] = "floorPipeline"
    /\ destroyed[12] = "bufMem"
    /\ destroyed[13] = "instBuf"

\* The member handle o is set in this step.
Made(o) == o \notin handles /\ o \in handles'

\* The load of shader h has finished and its result is the cached one.
Resolved(h) == sh[h].fut = "done" /\ sh[h].mData = sh[h].res

\* C27: the pipeline cache is created before either pipeline, the item
\* pipeline before the floor pipeline, and a pipeline is created only when
\* the loads of its two shaders have finished and data() has fetched their
\* results.
C27_PipelineTaskOrder ==
    [][/\ Made("pipelineCache") =>
             "itemPipeline" \notin handles /\ "floorPipeline" \notin handles
       /\ Made("itemPipeline") =>
             /\ "pipelineCache" \in handles
             /\ "floorPipeline" \notin handles
             /\ Resolved("itemVs") /\ Resolved("itemFs")
       /\ Made("floorPipeline") =>
             /\ "pipelineCache" \in handles
             /\ "itemPipeline" \in handles
             /\ Resolved("floorVs") /\ Resolved("floorFs")]_vars

\* C27 witness: the item pipeline exists and the task waits in data() for
\* the floor vertex shader, whose load is still running while that of the
\* floor fragment shader, started after it, has finished.
C27_Witness ==
    /\ "itemPipeline" \in handles
    /\ "floorPipeline" \notin handles
    /\ PipeRunning
    /\ sh["floorVs"].fut = "running"
    /\ sh["floorFs"].fut = "done"
    /\ Resolved("itemVs") /\ Resolved("itemFs")


\* ------------------------------------------------------------------ C31
\* A build step: ensureBuffers and ensureInstanceBuffer have run.
EnsureBuffersStep == \E t \in 1..MaxTasks : task[t] = "lock" /\ task'[t] = "wait"

\* The positions of the steps of kind `do` among the steps of ensureBuffers.
StepsOf(do) == {i \in 1..Len(bufSteps) : bufSteps[i].do = do}

\* C31: while the static memory block exists it is the only one, allocated
\* after the four buffers were created; in the order block, logo, floor,
\* uniform each start offset is a multiple of the buffer's required alignment,
\* each range ends where or before the next begins, the allocation reaches the
\* end of the uniform range, and every bind precedes every copy.  An ensure
\* that finds the block allocates and lays out nothing.
C31_StaticMemoryLayout ==
    /\ [](("bufMem" \in handles /\ ~aborted) =>
            /\ objCount["bufMem"] = 1
            /\ mItemMaterial.uniMemStartOffset = memPlan.offset["uniBuf"]
            /\ memPlan.req["uniBuf"].size >= uniBufSize
            /\ memPlan.offset["blockVertexBuf"] = 0
            /\ \A i \in 1..Len(LayoutOrder) :
                  LET b == LayoutOrder[i] IN
                  /\ memPlan.req[b].size > 0
                  /\ memPlan.offset[b] % memPlan.req[b].alignment = 0
                  /\ \A j \in (i + 1)..Len(LayoutOrder) :
                        memPlan.offset[b] + memPlan.req[b].size
                           <= memPlan.offset[LayoutOrder[j]]
            /\ memPlan.allocationSize
                  >= memPlan.offset["uniBuf"] + memPlan.req["uniBuf"].size
            /\ Cardinality(StepsOf("allocate")) = 1
            /\ Cardinality(StepsOf("bind")) = Len(LayoutOrder)
            /\ StepsOf("copy") # {}
            /\ \A c \in StepsOf("create"), a \in StepsOf("allocate") : c < a
            /\ \A a \in StepsOf("allocate"), b \in StepsOf("bind") : a < b
            /\ \A b \in StepsOf("bind"), c \in StepsOf("copy") : b < c)
    /\ [][(EnsureBuffersStep /\ "bufMem" \in handles) =>
             /\ memPlan' = memPlan
             /\ bufSteps' = bufSteps
             /\ objCount'["bufMem"] = objCount["bufMem"]]_vars

\* C31 witness: on a device that requires 256-byte alignment of vertex memory
\* the logo vertices start above the end of the block's 1152 bytes, and a
\* second frame build has found the block allocated.
C31_Witness ==
    /\ "bufMem" \in handles
    /\ ~aborted
    /\ memAlignment = 256
    /\ memPlan.offset["logoVertexBuf"] > BlockVertexCount * 8 * 4
    /\ memPlan.offset["uniBuf"] > memPlan.offset["floorVertexBuf"] + QuadVertBytes
    /\ frames >= 2
    /\ \E t \in 1..MaxTasks : task[t] = "wait"

\* ------------------------------------------------------------------ C32
\* C32: an upload copies the records 0 .. requestedCount - 1, that is
\* requestedCount x 24 bytes, and no more bytes than the range it mapped.
C32_UploadWithinMapped ==
    (uploads > 0 /\ ~aborted) =>
        /\ upload.copied = mPreparedInstCount * PER_INSTANCE_DATA_SIZE
        /\ upload.copied <= upload.mapped

\* ------------------------------------------------------------------ C33
\* C33: while the instance buffer exists, it and its memory are the only ones
\* made since the init, and the buffer has the maximum capacity of 16384 x 24
\* bytes; the ensure that finds no buffer makes both, and an ensure that finds
\* the buffer makes none and leaves its size alone, whatever the requested
\* count has grown to.
C33_InstanceBufferOnce ==
    /\ [](("instBuf" \in handles /\ ~aborted) =>
            /\ "instBufMem" \in handles
            /\ objCount["instBuf"] = 1
            /\ objCount["instBufMem"] = 1
            /\ instBufSize = 16384 * 24)
    /\ [][EnsureBuffersStep =>
             IF "instBuf" \in handles
             THEN /\ objCount'["instBuf"] = objCount["instBuf"]
                  /\ objCount'["instBufMem"] = objCount["instBufMem"]
                  /\ instBufSize' = instBufSize
             ELSE /\ {"instBuf", "instBufMem"} \subseteq handles'
                  /\ objCount'["instBuf"] = objCount["instBuf"] + 1
                  /\ objCount'["instBufMem"] = objCount["instBufMem"] + 1]_vars

\* C33 witness: the requested count has grown since the buffer was made and
\* a later ensure has prepared and uploaded the new records.
C33_Witness ==
    /\ "instBuf" \in handles
    /\ ~aborted
    /\ adds >= 1
    /\ uploads >= 2
    /\ mPreparedInstCount = InitialCount + InstanceStep
    /\ upload.mapped = (InitialCount + InstanceStep) * PER_INSTANCE_DATA_SIZE

\* ------------------------------------------------------------------ C34
\* C34: when a frame build returns, having issued the item draw from the
\* current frame slot, that slot holds the model matrix of the mesh selection
\* and the rotation angle current at that build.
C34_ModelMatrixCurrent ==
    [][RecordStep => slotModel'[currentFrame] = ModelMatrix(mUseLogo', mRotation')]_vars

\* ------------------------------------------------------------------ C35
\* The instance memory holds, for every index below n, the generated record
\* that the backing store holds there.
DeviceHolds(n) ==
    IF n = 0 THEN TRUE
    ELSE /\ \E q \in mInstData' : q.from = 0 /\ n <= q.to
         /\ Retains(devInstData', mInstData')

\* C35 as stated: the prepared count never exceeds the requested count, and
\* the item draw of a frame build passes the prepared count of that build,
\* every drawn index holding a generated record that this build uploaded.
C35_DrawnUploadedInBuild ==
    /\ [](~aborted => mPreparedInstCount <= mInstCount)
    /\ [][RecordStep =>
             /\ drawCount' = mPreparedInstCount'
             /\ buildUploaded
             /\ DeviceHolds(drawCount')]_vars

\* C35 amended: the prepared count never exceeds the requested count, and the
\* item draw of a frame build passes the prepared count of that build, every
\* drawn index holding a generated record that the instance buffer's memory
\* holds, uploaded by this build or by an earlier one since the buffer was
\* made; a build that finds the requested count prepared uploads nothing.
C35_DrawnUploaded ==
    /\ [](~aborted => mPreparedInstCount <= mInstCount)
    /\ [][RecordStep =>
             /\ drawCount' = mPreparedInstCount'
             /\ drawCount' = mInstCount'
             /\ DeviceHolds(drawCount')]_vars
    /\ [][EnsureBuffersStep =>
             (buildUploaded' <=> (mInstCount # mPreparedInstCount
                                     \/ "instBuf" \notin handles))]_vars

\* C35 witness: the second frame build found the requested count prepared,
\* uploaded nothing and drew the records the first build had uploaded; an
\* add-instances call has since raised the requested count above the prepared
\* one.
C35_Witness ==
    /\ ~aborted
    /\ frames >= 2
    /\ \A t \in 1..MaxTasks : task[t] = "idle"
    /\ uploads = 1
    /\ ~buildUploaded
    /\ drawCount > 0
    /\ drawCount = mPreparedInstCount
    /\ Retains(devInstData, mInstData)
    /\ adds >= 1
    /\ mInstCount > mPreparedInstCount

\* ------------------------------------------------------------------ C36
\* C36: where no load and no device call fails, a frame that was started is
\* notified as ready in the end: the build task, holding the lock while it
\* waits for the pipeline task and this for the shader loads, terminates.
C36_FrameReadyInTheEnd == mFramePending ~> ~mFramePending

=========================================================================
